---- MODULE Spec2Model ----
(***************************************************************************)
(* Model of the LLM pricing registry (app/pricing/repository.py) and of    *)
(* the billing engine (app/engine/calculator.py).                          *)
(*                                                                         *)
(* Representation.                                                         *)
(*   - A Python dict with string keys is a function over a finite set of   *)
(*     strings; a dict whose insertion order is observable (the usage map, *)
(*     iterated by _validate_usage) is a sequence of entries with distinct *)
(*     keys, in insertion order.                                           *)
(*   - A Decimal is its sign, the digits of its coefficient and its        *)
(*     exponent; its arithmetic is that of the decimal module under the    *)
(*     default context (28 significant digits, ROUND_HALF_EVEN).           *)
(*   - None is a record with a false presence flag.                        *)
(*   - An exception is an outcome record: status "error" is a PricingError *)
(*     (code, details), status "crash" is any other exception (code holds  *)
(*     the exception type).                                                *)
(***************************************************************************)
EXTENDS Integers, Sequences, FiniteSets, TLC

\* ------------------------------------------------------------------------
\* Bounds of the model
\* ------------------------------------------------------------------------
\* usage quantities submitted by callers range over -1 .. MaxQty
MaxQty == 3
\* greatest number of entries of a submitted usage map
MaxUsage == 2

\* ------------------------------------------------------------------------
\* Program constants
\* ------------------------------------------------------------------------
SUPPORTED_BILLABLE_DIMENSIONS ==
    { "input_tokens_uncached", "input_tokens_cached", "output_tokens",
      "reasoning_tokens", "embedding_tokens", "tool_calls", "image_count",
      "image_megapixels", "audio_input_seconds", "audio_output_seconds",
      "requests" }

\* MAX_DIMENSION_QUANTITY = 10_000_000_000 = MaxQuantityLimbs * QuantityLimb
QuantityLimb == 100000
MaxQuantityLimbs == 100000

\* ------------------------------------------------------------------------
\* Generic helpers for dicts
\* ------------------------------------------------------------------------
EmptyMap == [k \in {} |-> 0]

\* dict.update: the entries of b override those of a
MapMerge(a, b) ==
    [k \in (DOMAIN a) \cup (DOMAIN b) |-> IF k \in DOMAIN b THEN b[k] ELSE a[k]]

\* Python's str ordering (by code point) on the dimension names of the model
DimRank(d) ==
    CASE d = "" -> 0
      [] d = "input_tokens_cached" -> 1
      [] d = "input_tokens_uncached" -> 2
      [] d = "output_tokens" -> 3
      [] d = "requests" -> 4
      [] d = "video_seconds" -> 5

StrLess(a, b) == DimRank(a) < DimRank(b)

\* ------------------------------------------------------------------------
\* decimal.Decimal under the default context (prec 28, ROUND_HALF_EVEN,
\* Emax 999999, Emin -999999, traps InvalidOperation and Overflow)
\* ------------------------------------------------------------------------
\* A coefficient is a sequence of decimal digits, most significant first,
\* without leading zeros (zero is <<0>>): Decimal._int.
RECURSIVE DigitsOfNat(_)
DigitsOfNat(n) ==
    IF n < 10 THEN <<n>> ELSE Append(DigitsOfNat(n \div 10), n % 10)

Zeros(k) == [i \in 1..k |-> 0]

\* the number whose digits are s[1..i] (below 2^31 for at most 9 digits)
RECURSIVE NatOfDigits(_, _)
NatOfDigits(s, i) == IF i = 0 THEN 0 ELSE 10 * NatOfDigits(s, i - 1) + s[i]

IsZeroDigits(s) == \A i \in 1..Len(s) : s[i] = 0

\* s without its leading zeros
TrimZeros(s) ==
    IF IsZeroDigits(s) THEN <<0>>
    ELSE SubSeq(s,
                CHOOSE i \in 1..Len(s) :
                    s[i] # 0 /\ \A j \in 1..(i - 1) : s[j] = 0,
                Len(s))

PadLeft(s, n) == Zeros(n - Len(s)) \o s

MaxOf(a, b) == IF a >= b THEN a ELSE b
MinOf(a, b) == IF a <= b THEN a ELSE b

\* whether a + b, of equal lengths, carries into position i: a position to
\* its right overflows and every position between them passes the carry on
CarryInto(a, b, i) ==
    \E j \in (i + 1)..Len(a) :
        /\ a[j] + b[j] >= 10
        /\ \A k \in (i + 1)..(j - 1) : a[k] + b[k] = 9

\* a + b for a and b of equal lengths whose first digits are 0
AddPadded(a, b) ==
    [ i \in 1..Len(a) |->
        (a[i] + b[i] + (IF CarryInto(a, b, i) THEN 1 ELSE 0)) % 10 ]

\* a + b, in machine integers when both have at most 9 digits
AddDigits(a, b) ==
    IF Len(a) <= 9 /\ Len(b) <= 9
    THEN DigitsOfNat(NatOfDigits(a, Len(a)) + NatOfDigits(b, Len(b)))
    ELSE TrimZeros(AddPadded(PadLeft(a, MaxOf(Len(a), Len(b)) + 1),
                             PadLeft(b, MaxOf(Len(a), Len(b)) + 1)))

\* whether a - b, of equal lengths, borrows from position i
BorrowFrom(a, b, i) ==
    \E j \in (i + 1)..Len(a) :
        /\ a[j] < b[j]
        /\ \A k \in (i + 1)..(j - 1) : a[k] = b[k]

\* a - b for a >= b of equal lengths
SubPadded(a, b) ==
    [ i \in 1..Len(a) |->
        (a[i] - b[i] - (IF BorrowFrom(a, b, i) THEN 1 ELSE 0) + 10) % 10 ]

\* a - b for a >= b, in machine integers when a has at most 9 digits
SubDigits(a, b) ==
    IF Len(a) <= 9
    THEN DigitsOfNat(NatOfDigits(a, Len(a)) - NatOfDigits(b, Len(b)))
    ELSE TrimZeros(SubPadded(a, PadLeft(b, Len(a))))

\* the sum of the products a[i] * b[k + 1 - i] for i from lo to hi: a part
\* of column k of the long multiplication of a by b
RECURSIVE ColumnSum(_, _, _, _, _)
ColumnSum(a, b, k, lo, hi) ==
    IF lo > hi THEN 0
    ELSE a[lo] * b[k + 1 - lo] + ColumnSum(a, b, k, lo + 1, hi)

\* the columns of the long multiplication, most significant first
Columns(a, b) ==
    [ k \in 1..(Len(a) + Len(b) - 1) |->
        ColumnSum(a, b, k, MaxOf(1, k + 1 - Len(b)), MinOf(Len(a), k)) ]

\* the number the columns stand for: their units, and ten times the number
\* their tens and above stand for
RECURSIVE SumColumns(_)
SumColumns(columns) ==
    IF \A k \in 1..Len(columns) : columns[k] < 10 THEN TrimZeros(columns)
    ELSE AddDigits([k \in 1..Len(columns) |-> columns[k] % 10],
                   Append(SumColumns([k \in 1..Len(columns) |->
                                        columns[k] \div 10]), 0))

\* a * b, in machine integers when the product has at most 9 digits
MulDigits(a, b) ==
    IF Len(a) + Len(b) <= 9
    THEN DigitsOfNat(NatOfDigits(a, Len(a)) * NatOfDigits(b, Len(b)))
    ELSE SumColumns(Columns(a, b))

LessDigits(a, b) ==
    \/ Len(a) < Len(b)
    \/ /\ Len(a) = Len(b)
       /\ \E i \in 1..Len(a) :
            /\ a[i] < b[i]
            /\ \A j \in 1..(i - 1) : a[j] = b[j]

\* the number of zeros a coefficient ends with, counted up to most
RECURSIVE TrailingZeros(_, _)
TrailingZeros(s, most) ==
    IF most = 0 \/ Len(s) <= 1 \/ s[Len(s)] # 0 THEN 0
    ELSE 1 + TrailingZeros(SubSeq(s, 1, Len(s) - 1), most - 1)

\* sign is 1 for a negative number, which a zero can be; the value is
\* (-1)^sign * digits * 10^exponent
Decimal(sign, digits, exponent) ==
    [sign |-> sign, digits |-> digits, exponent |-> exponent]

\* Decimal(n) of an int
DecimalOfInt(n) ==
    Decimal(IF n < 0 THEN 1 ELSE 0, DigitsOfNat(IF n < 0 THEN -n ELSE n), 0)

\* the default context of the decimal module
DECIMAL_PREC == 28
DECIMAL_EMAX == 999999
DECIMAL_EMIN == -999999
Etiny == DECIMAL_EMIN - DECIMAL_PREC + 1
Etop == DECIMAL_EMAX - DECIMAL_PREC + 1

\* the result of an operation: a Decimal, or the exception a trap raises
DecimalResult(value) == [raised |-> "", value |-> value]
DecimalRaises(type) == [raised |-> type, value |-> Decimal(0, <<0>>, 0)]

\* whether the digits after the first `keep` round the coefficient up
RoundsUp(digits, keep, rounding) ==
    IF /\ rounding = "ROUND_HALF_EVEN"
       /\ digits[keep + 1] = 5
       /\ \A i \in (keep + 2)..Len(digits) : digits[i] = 0
       /\ (keep = 0 \/ digits[keep] % 2 = 0)
    THEN FALSE
    ELSE digits[keep + 1] >= 5

\* _rescale of a non-zero Decimal to a greater exponent, `keep` >= 0 of its
\* digits remaining
RoundedTo(d, exp, keep, rounding) ==
    Decimal(d.sign,
            IF RoundsUp(d.digits, keep, rounding)
            THEN AddDigits(IF keep = 0 THEN <<0>> ELSE SubSeq(d.digits, 1, keep),
                           <<1>>)
            ELSE IF keep = 0 THEN <<0>> ELSE SubSeq(d.digits, 1, keep),
            exp)

\* Decimal._rescale(exp, rounding)
Rescale(d, exp, rounding) ==
    IF IsZeroDigits(d.digits) THEN Decimal(d.sign, <<0>>, exp)
    ELSE IF d.exponent >= exp
    THEN Decimal(d.sign, d.digits \o Zeros(d.exponent - exp), exp)
    ELSE IF Len(d.digits) + d.exponent - exp < 0
    THEN Decimal(d.sign, <<0>>, exp)
    ELSE RoundedTo(d, exp, Len(d.digits) + d.exponent - exp, rounding)

\* _fix once the coefficient has been rounded to exp_min: a carry into a
\* 29th digit drops the last zero
FixRounded(r) ==
    IF Len(r.digits) > DECIMAL_PREC
    THEN IF r.exponent + 1 > Etop THEN DecimalRaises("Overflow")
         ELSE DecimalResult(Decimal(r.sign,
                                    SubSeq(r.digits, 1, Len(r.digits) - 1),
                                    r.exponent + 1))
    ELSE DecimalResult(r)

\* _fix of a non-zero Decimal whose least exponent in the context is exp_min
FixTo(d, exp_min) ==
    IF exp_min > Etop THEN DecimalRaises("Overflow")
    ELSE IF d.exponent < MaxOf(exp_min, Etiny)
    THEN FixRounded(Rescale(d, MaxOf(exp_min, Etiny), "ROUND_HALF_EVEN"))
    ELSE DecimalResult(d)

\* Decimal._fix(context): the rounding every arithmetic result goes through
Fix(d) ==
    IF IsZeroDigits(d.digits)
    THEN DecimalResult(Decimal(d.sign, <<0>>,
                               MinOf(MaxOf(d.exponent, Etiny), DECIMAL_EMAX)))
    ELSE FixTo(d, Len(d.digits) + d.exponent - DECIMAL_PREC)

\* a * b
DecimalTimes(a, b) ==
    Fix(Decimal(IF a.sign = b.sign THEN 0 ELSE 1,
                MulDigits(a.digits, b.digits),
                a.exponent + b.exponent))

\* a / b for a divisor that is a power of ten (the program divides by
\* ONE_MILLION only): the quotient is exact, and its exponent is brought as
\* near to a.exponent - b.exponent as its trailing zeros allow
DecimalOver(a, b) ==
    IF IsZeroDigits(a.digits)
    THEN Fix(Decimal(IF a.sign = b.sign THEN 0 ELSE 1, <<0>>,
                     a.exponent - b.exponent))
    ELSE Fix(Decimal(IF a.sign = b.sign THEN 0 ELSE 1,
                     SubSeq(a.digits, 1,
                            Len(a.digits)
                              - TrailingZeros(a.digits, Len(b.digits) - 1)),
                     a.exponent - b.exponent - (Len(b.digits) - 1)
                       + TrailingZeros(a.digits, Len(b.digits) - 1)))

\* _normalize: of two non-zero operands, the one with the smaller exponent,
\* replaced by 1 at an exponent that cannot reach the result when it is
\* too small to matter
NormalizedSmall(big, small) ==
    IF Len(small.digits) + small.exponent - 1
         < big.exponent + MinOf(-1, Len(big.digits) - DECIMAL_PREC - 2)
    THEN Decimal(small.sign, <<1>>,
                 big.exponent + MinOf(-1, Len(big.digits) - DECIMAL_PREC - 2))
    ELSE small

\* the sum of two non-zero operands brought to the same exponent
SumAligned(x, y) ==
    IF x.sign = y.sign
    THEN Fix(Decimal(x.sign, AddDigits(x.digits, y.digits), x.exponent))
    ELSE IF x.digits = y.digits
    THEN Fix(Decimal(0, <<0>>, x.exponent))
    ELSE IF LessDigits(x.digits, y.digits)
    THEN Fix(Decimal(y.sign, SubDigits(y.digits, x.digits), x.exponent))
    ELSE Fix(Decimal(x.sign, SubDigits(x.digits, y.digits), x.exponent))

\* the sum of two non-zero operands, big.exponent >= small.exponent
SumNormalized(big, small) ==
    SumAligned(Decimal(big.sign,
                       big.digits \o Zeros(big.exponent - small.exponent),
                       small.exponent),
               small)

\* a + b: a zero sum is negative only when both operands are
DecimalPlus(a, b) ==
    IF IsZeroDigits(a.digits) /\ IsZeroDigits(b.digits)
    THEN Fix(Decimal(MinOf(a.sign, b.sign), <<0>>,
                     MinOf(a.exponent, b.exponent)))
    ELSE IF IsZeroDigits(a.digits)
    THEN Fix(Rescale(b, MaxOf(MinOf(a.exponent, b.exponent),
                              b.exponent - DECIMAL_PREC - 1),
                     "ROUND_HALF_EVEN"))
    ELSE IF IsZeroDigits(b.digits)
    THEN Fix(Rescale(a, MaxOf(MinOf(a.exponent, b.exponent),
                              a.exponent - DECIMAL_PREC - 1),
                     "ROUND_HALF_EVEN"))
    ELSE IF a.exponent >= b.exponent
    THEN SumNormalized(a, NormalizedSmall(a, b))
    ELSE SumNormalized(b, NormalizedSmall(b, a))

\* Decimal.quantize(exp, rounding) once the operand is known to fit
QuantizeRescaled(ans) ==
    IF Len(ans.digits) + ans.exponent - 1 > DECIMAL_EMAX
         \/ Len(ans.digits) > DECIMAL_PREC
    THEN DecimalRaises("InvalidOperation")
    ELSE Fix(ans)

\* Decimal.quantize(exp, rounding)
DecimalQuantize(d, exp, rounding) ==
    IF IsZeroDigits(d.digits) THEN Fix(Decimal(d.sign, <<0>>, exp.exponent))
    ELSE IF \/ Len(d.digits) + d.exponent - 1 > DECIMAL_EMAX
            \/ Len(d.digits) + d.exponent - 1 - exp.exponent + 1 > DECIMAL_PREC
    THEN DecimalRaises("InvalidOperation")
    ELSE QuantizeRescaled(Rescale(d, exp.exponent, rounding))

\* the digits s[lo..hi] as text
RECURSIVE DigitsRange(_, _, _)
DigitsRange(s, lo, hi) ==
    IF lo > hi THEN ""
    ELSE IF lo = hi THEN ToString(s[lo])
    ELSE DigitsRange(s, lo, (lo + hi) \div 2)
         \o DigitsRange(s, (lo + hi) \div 2 + 1, hi)

DigitsText(s) == DigitsRange(s, 1, Len(s))

\* format(d, "f") of a Decimal with exponent <= 0
FormatPlain(d) ==
    (IF d.sign = 1 THEN "-" ELSE "")
    \o DigitsText(IF Len(d.digits) > -d.exponent
                  THEN SubSeq(d.digits, 1, Len(d.digits) + d.exponent)
                  ELSE <<0>>)
    \o (IF d.exponent = 0 THEN ""
        ELSE "." \o DigitsText(
                 IF Len(d.digits) > -d.exponent
                 THEN SubSeq(d.digits, Len(d.digits) + d.exponent + 1,
                             Len(d.digits))
                 ELSE Zeros(-d.exponent - Len(d.digits)) \o d.digits))

\* format(d, "f"): a positive exponent is written out as zeros
FormatFixed(d) ==
    IF d.exponent > 0 THEN FormatPlain(Rescale(d, 0, "ROUND_HALF_EVEN"))
    ELSE FormatPlain(d)

\* ONE_MILLION = Decimal("1000000")
ONE_MILLION == Decimal(0, <<1, 0, 0, 0, 0, 0, 0>>, 0)

\* COST_QUANTIZER = Decimal("0.000001")
COST_QUANTIZER == Decimal(0, <<1>>, -6)

\* ------------------------------------------------------------------------
\* Rate model (app/pricing/models.py)
\* ------------------------------------------------------------------------
Rate(kind, value, raw) == [kind |-> kind, value |-> value, raw |-> raw]

TierCondition(dimension, gt) == [dimension |-> dimension, gt |-> gt]

PricingTier(condition, billable) == [condition |-> condition, billable |-> billable]

ModelPricingFields ==
    { "model", "effective_from", "billable", "capabilities", "metadata",
      "pricing_tiers" }

\* The dataclass constructor: every field is required (none has a default),
\* so a call that leaves one out raises TypeError.
ModelPricing(kwargs) ==
    IF DOMAIN kwargs = ModelPricingFields
    THEN [ok |-> TRUE, error |-> "", value |-> kwargs]
    ELSE [ok |-> FALSE, error |-> "TypeError", value |-> kwargs]

ProviderPricing(provider, models) == [provider |-> provider, models |-> models]

RegistryMeta(pricing_version, currency) ==
    [pricing_version |-> pricing_version, currency |-> currency]

\* ------------------------------------------------------------------------
\* Registry files on disk (fixed for the lifetime of a registry)
\* ------------------------------------------------------------------------
\* a JSON number or numeric string of a rate, with the Decimal it denotes
Num(text, sign, digits, exponent) ==
    [text |-> text, value |-> Decimal(sign, digits, exponent)]

\* the rate "-0": Decimal("-0") is a zero with the sign set
NegativeZero == Num("-0", 1, <<0>>, 0)

RawBase ==
    [ input_tokens_uncached |-> [per_1m |-> Num("1.25", 0, <<1, 2, 5>>, -2)],
      input_tokens_cached   |-> [per_1m |-> Num("0.5", 0, <<5>>, -1)],
      output_tokens         |-> [per_1m |-> Num("10.0", 0, <<1, 0, 0>>, -1)],
      requests              |-> [per_unit |-> Num("0.25", 0, <<2, 5>>, -2)] ]

\* the long-context tier of gemini-2.5-pro (thresholds scaled to MaxQty)
RawTierContext ==
    [ condition |-> [dimension |-> "context_tokens", gt |-> 2],
      billable  |-> [ input_tokens_uncached |-> [per_1m |-> Num("2.5", 0, <<2, 5>>, -1)],
                      input_tokens_cached   |-> [per_1m |-> Num("0.75", 0, <<7, 5>>, -2)],
                      output_tokens         |-> [per_1m |-> Num("15.0", 0, <<1, 5, 0>>, -1)] ] ]

RawTierLow ==
    [ condition |-> [dimension |-> "context_tokens", gt |-> 1],
      billable  |-> [ input_tokens_uncached |-> [per_1m |-> Num("2.5", 0, <<2, 5>>, -1)],
                      output_tokens         |-> [per_1m |-> Num("15.0", 0, <<1, 5, 0>>, -1)] ] ]

RawTierHigh ==
    [ condition |-> [dimension |-> "output_tokens", gt |-> 2],
      billable  |-> [ input_tokens_uncached |-> [per_1m |-> Num("5.0", 0, <<5, 0>>, -1)],
                      input_tokens_cached   |-> [per_1m |-> Num("1.0", 0, <<1, 0>>, -1)],
                      output_tokens         |-> [per_1m |-> Num("30.0", 0, <<3, 0, 0>>, -1)] ] ]

RawModel(model, billable, tiers) ==
    [ model |-> model, effective_from |-> "2026-01-01", billable |-> billable,
      capabilities |-> <<"chat">>, metadata |-> EmptyMap,
      pricing_tiers |-> tiers ]

GoogleDoc(tiers) ==
    [ provider |-> "google",
      models |-> << RawModel("gemini-2.5-pro", RawBase, <<RawTierContext>>),
                    RawModel("gemini-multi", RawBase, tiers),
                    RawModel("gemini-flash",
                             [output_tokens |-> [per_1m |-> Num("0.5", 0, <<5>>, -1)]],
                             <<>>) >> ]

\* a provider document that declares no model
EmptyDoc == [provider |-> "sandbox", models |-> <<>>]

AliasDoc(has_provider, provider, aliases, provider_aliases) ==
    [ has_provider |-> has_provider, provider |-> provider,
      aliases |-> aliases, provider_aliases |-> provider_aliases ]

GoogleAliases ==
    AliasDoc(TRUE, "google", [gemini |-> "gemini-2.5-pro"],
             [vertex |-> "google"])

Meta == [pricing_version |-> "2026-02-22", currency |-> "USD"]

\* the registries a process may be started on
Registries ==
    { [ meta |-> Meta,
        providers |-> [google |-> GoogleDoc(<<RawTierLow, RawTierHigh>>),
                       sandbox |-> EmptyDoc],
        aliases |-> << GoogleAliases >> ],
      [ meta |-> Meta,
        providers |-> [google |-> GoogleDoc(<<RawTierHigh, RawTierLow>>),
                       sandbox |-> EmptyDoc],
        aliases |-> << GoogleAliases,
                       AliasDoc(FALSE, "", EmptyMap,
                                [gcp |-> "vertex", lab |-> "sandbox"]) >> ] }

\* ------------------------------------------------------------------------
\* State
\* ------------------------------------------------------------------------
VARIABLES
    files,              \* the registry directory on disk
    meta,               \* PricingRepository._meta
    provider_files,     \* PricingRepository._provider_files (stem = path)
    provider_cache,     \* PricingRepository._provider_cache
    model_aliases,      \* PricingRepository._model_aliases (None or dict)
    provider_aliases,   \* PricingRepository._provider_aliases (None or dict)
    last,               \* the last call made on the registry or the engine
    threads             \* the registry calls in progress on worker threads

vars == << files, meta, provider_files, provider_cache, model_aliases,
           provider_aliases, last, threads >>

NoneMap == [loaded |-> FALSE, map |-> EmptyMap]
SomeMap(m) == [loaded |-> TRUE, map |-> m]

\* the mutable fields of one PricingRepository, threaded through its methods
Self == [ provider_cache |-> provider_cache, model_aliases |-> model_aliases,
          provider_aliases |-> provider_aliases ]

\* ------------------------------------------------------------------------
\* Pricing registry (app/pricing/repository.py)
\* ------------------------------------------------------------------------
load_meta == RegistryMeta(files.meta.pricing_version, files.meta.currency)

discover_providers == DOMAIN files.providers

RECURSIVE load_provider_aliases_from(_, _)
load_provider_aliases_from(docs, acc) ==
    IF docs = <<>> THEN acc
    ELSE load_provider_aliases_from(Tail(docs),
                                    MapMerge(acc, Head(docs).provider_aliases))

load_provider_aliases == load_provider_aliases_from(files.aliases, EmptyMap)

\* returns the repository after the call; the dict returned is its .map
get_provider_aliases(self) ==
    IF self.provider_aliases.loaded THEN self
    ELSE [self EXCEPT !.provider_aliases = SomeMap(load_provider_aliases)]

RECURSIVE load_model_aliases_from(_, _)
load_model_aliases_from(docs, acc) ==
    IF docs = <<>> THEN acc
    ELSE LET raw == Head(docs)
         IN  load_model_aliases_from(
                Tail(docs),
                IF raw.has_provider
                THEN MapMerge(acc, [p \in {raw.provider} |-> raw.aliases])
                ELSE acc)

load_model_aliases == load_model_aliases_from(files.aliases, EmptyMap)

get_model_aliases(self) ==
    IF self.model_aliases.loaded THEN self
    ELSE [self EXCEPT !.model_aliases = SomeMap(load_model_aliases)]

\* mutant of resolve_provider_loop: a cycle returns the id it stopped at
RECURSIVE resolve_provider_loop_stops(_, _, _, _)
resolve_provider_loop_stops(aliases, origin, resolved, visited) ==
    IF resolved \in visited THEN resolved
    ELSE IF resolved \notin DOMAIN aliases THEN resolved
    ELSE resolve_provider_loop_stops(aliases, origin, aliases[resolved],
                                     visited \cup {resolved})

RECURSIVE resolve_provider_loop(_, _, _, _)
resolve_provider_loop(aliases, origin, resolved, visited) ==
    IF resolved \in visited THEN origin
    ELSE IF resolved \notin DOMAIN aliases THEN resolved
    ELSE resolve_provider_loop(aliases, origin, aliases[resolved],
                               visited \cup {resolved})

\* mutant of resolve_provider_iterations: an id is taken for a cycle only the
\* second time it is met again
RECURSIVE resolve_provider_iterations_twice(_, _, _, _)
resolve_provider_iterations_twice(aliases, origin, resolved, visited) ==
    IF (resolved \o "!") \in visited THEN <<resolved>>
    ELSE IF resolved \notin DOMAIN aliases THEN <<resolved>>
    ELSE <<resolved>> \o resolve_provider_iterations_twice(
                            aliases, origin, aliases[resolved],
                            IF resolved \in visited
                            THEN visited \cup {resolved \o "!"}
                            ELSE visited \cup {resolved})

\* the value of `resolved` at the top of each iteration of the while loop
RECURSIVE resolve_provider_iterations(_, _, _, _)
resolve_provider_iterations(aliases, origin, resolved, visited) ==
    IF resolved \in visited THEN <<resolved>>
    ELSE IF resolved \notin DOMAIN aliases THEN <<resolved>>
    ELSE <<resolved>> \o resolve_provider_iterations(
                            aliases, origin, aliases[resolved],
                            visited \cup {resolved})

\* [self |-> repository after the call, ret |-> canonical provider key]
resolve_provider(self, provider) ==
    LET s1 == get_provider_aliases(self)
    IN  [ self |-> s1,
          ret  |-> resolve_provider_loop(s1.provider_aliases.map, provider,
                                         provider, {}) ]

parse_billable(raw_billable) ==
    [ dimension \in DOMAIN raw_billable |->
        LET raw_rate == raw_billable[dimension]
        IN  IF "per_1m" \in DOMAIN raw_rate
            THEN Rate("per_1m", raw_rate["per_1m"].value, raw_rate["per_1m"].text)
            ELSE Rate("per_unit", raw_rate["per_unit"].value,
                      raw_rate["per_unit"].text) ]

\* the keyword arguments _parse_models passes to ModelPricing
parse_models_entry(raw_model) ==
    ModelPricing([ model |-> raw_model.model,
                   effective_from |-> raw_model.effective_from,
                   billable |-> parse_billable(raw_model.billable),
                   capabilities |-> raw_model.capabilities,
                   metadata |-> raw_model.metadata ])

RECURSIVE parse_models_from(_, _)
parse_models_from(raw_models, models) ==
    IF raw_models = <<>> THEN [ok |-> TRUE, error |-> "", models |-> models]
    ELSE LET entry == parse_models_entry(Head(raw_models))
         IN  IF ~entry.ok
             THEN [ok |-> FALSE, error |-> entry.error, models |-> EmptyMap]
             ELSE IF entry.value.model \in DOMAIN models
             THEN [ok |-> FALSE, error |-> "ValueError", models |-> EmptyMap]
             ELSE parse_models_from(
                     Tail(raw_models),
                     MapMerge(models,
                              [m \in {entry.value.model} |-> entry.value]))

parse_models(raw_models) == parse_models_from(raw_models, EmptyMap)

\* the keys pricing_provider.schema.json requires of a provider document
provider_schema_errors(raw) == { k \in {"provider", "models"} : k \notin DOMAIN raw }

\* _validate_schema: the exception raised, "" when the document is valid
validate_schema(raw) ==
    IF provider_schema_errors(raw) = {} THEN "" ELSE "ValueError"

\* _load_provider once the document has passed the schema
load_provider_validated(raw, models) ==
    IF models.ok
    THEN [ok |-> TRUE, error |-> "",
          value |-> ProviderPricing(raw.provider, models.models)]
    ELSE [ok |-> FALSE, error |-> models.error,
          value |-> ProviderPricing(raw.provider, EmptyMap)]

\* [ok, error, value]: the ProviderPricing, or the exception that escapes
load_provider(provider_path) ==
    IF validate_schema(files.providers[provider_path]) # ""
    THEN [ok |-> FALSE,
          error |-> validate_schema(files.providers[provider_path]),
          value |-> ProviderPricing("", EmptyMap)]
    ELSE load_provider_validated(
            files.providers[provider_path],
            parse_models(files.providers[provider_path].models))

NoProvider == ProviderPricing("", EmptyMap)

\* mutant of get_provider_loaded: a document that failed to load is cached
\* with the models parsed so far
get_provider_loaded_caches_failure(self, canonical_provider, loaded) ==
    [self |-> [self EXCEPT !.provider_cache =
                  MapMerge(@, [p \in {canonical_provider} |-> loaded.value])],
     raised |-> IF loaded.ok THEN "" ELSE loaded.error,
     found |-> loaded.ok, parsed |-> TRUE,
     ret |-> IF loaded.ok THEN loaded.value ELSE NoProvider]

\* get_provider once the provider file is known to exist: load and cache it
get_provider_loaded(self, canonical_provider, loaded) ==
    IF ~loaded.ok
    THEN [self |-> self, raised |-> loaded.error, found |-> FALSE,
          parsed |-> TRUE, ret |-> NoProvider]
    ELSE [self |-> [self EXCEPT !.provider_cache =
                       MapMerge(@, [p \in {canonical_provider}
                                      |-> loaded.value])],
          raised |-> "", found |-> TRUE, parsed |-> TRUE,
          ret |-> loaded.value]

\* get_provider once the canonical key is known: cache, file, load
get_provider_canonical(self, canonical_provider) ==
    IF canonical_provider \in DOMAIN self.provider_cache
    THEN [self |-> self, raised |-> "", found |-> TRUE, parsed |-> FALSE,
          ret |-> self.provider_cache[canonical_provider]]
    ELSE IF canonical_provider \notin provider_files
    THEN [self |-> self, raised |-> "", found |-> FALSE, parsed |-> FALSE,
          ret |-> NoProvider]
    ELSE get_provider_loaded(self, canonical_provider,
                             load_provider(canonical_provider))

get_provider_resolved(r) == get_provider_canonical(r.self, r.ret)

\* mutant of get_provider: the cache and the files are looked up under the
\* id the caller gave
get_provider_by_given_id(self, provider) ==
    get_provider_canonical(resolve_provider(self, provider).self, provider)

\* [self, raised ("" when nothing is raised), found, parsed (_load_provider
\* was called), ret]
get_provider(self, provider) ==
    get_provider_resolved(resolve_provider(self, provider))

\* aliases.get(canonical_provider, {}).get(model, model)
resolve_model_lookup(aliases, r, model) ==
    LET canonical_provider == r.ret
        provider_aliases_ == IF canonical_provider \in DOMAIN aliases
                             THEN aliases[canonical_provider] ELSE EmptyMap
    IN  [ self |-> r.self,
          ret  |-> IF model \in DOMAIN provider_aliases_
                   THEN provider_aliases_[model] ELSE model ]

\* resolve_model once the model aliases are loaded
resolve_model_aliased(s1, provider, model) ==
    resolve_model_lookup(s1.model_aliases.map, resolve_provider(s1, provider),
                         model)

\* [self, ret]
resolve_model(self, provider, model) ==
    resolve_model_aliased(get_model_aliases(self), provider, model)

\* ------------------------------------------------------------------------
\* Error taxonomy (app/engine/exceptions.py)
\* ------------------------------------------------------------------------
\* details values are shown in their text form
PricingError(code, message, details) ==
    [ raised |-> TRUE, exc |-> "PricingError", code |-> code,
      message |-> message, status_code |-> 400, details |-> details ]

NoError ==
    [ raised |-> FALSE, exc |-> "", code |-> "", message |-> "",
      status_code |-> 0, details |-> EmptyMap ]

\* an exception that is not a PricingError: it has no code, status or details
Crash(type) ==
    [ raised |-> TRUE, exc |-> type, code |-> "", message |-> "",
      status_code |-> 0, details |-> EmptyMap ]

\* ------------------------------------------------------------------------
\* Billing engine (app/engine/calculator.py)
\* ------------------------------------------------------------------------
ENGINE_VERSION == "0.1.0"

\* OverrideRatecard | None
NoOverride == [present |-> FALSE, currency |-> "", billable |-> EmptyMap]
OverrideRatecard(currency, billable) ==
    [present |-> TRUE, currency |-> currency, billable |-> billable]

BreakdownItem(dimension, quantity, rate, cost) ==
    [dimension |-> dimension, quantity |-> quantity, rate |-> rate, cost |-> cost]

\* one entry of the usage dict: qtype is the Python type of the quantity
\* ("bool": quantity 1 is True, 0 is False; "float": float(quantity)).
\* Python integers are unbounded: the value of an entry is
\* limbs * QuantityLimb + quantity, and when limbs # 0 the quantity part has
\* the sign of limbs and is smaller than QuantityLimb in absolute value.
BigUsageEntry(dimension, limbs, quantity, qtype) ==
    [ dimension |-> dimension, quantity |-> quantity, qtype |-> qtype,
      limbs |-> limbs ]

UsageEntry(dimension, quantity, qtype) ==
    BigUsageEntry(dimension, 0, quantity, qtype)

\* the value of an entry as a number of the cost computation
Quantity(entry) == entry.limbs * QuantityLimb + entry.quantity

UsageKeys(usage) == { usage[i].dimension : i \in 1..Len(usage) }

\* usage[dimension]
UsageAt(usage, dimension) ==
    (CHOOSE i \in 1..Len(usage) : usage[i].dimension = dimension)

\* usage.get(dimension, 0)
UsageGet(usage, dimension) ==
    IF dimension \in UsageKeys(usage)
    THEN Quantity(usage[UsageAt(usage, dimension)]) ELSE 0

\* the decimal digits of the quantity part below a non-zero limbs part
LimbText(n) ==
    IF n < 10 THEN "0000" \o ToString(n)
    ELSE IF n < 100 THEN "000" \o ToString(n)
    ELSE IF n < 1000 THEN "00" \o ToString(n)
    ELSE IF n < 10000 THEN "0" \o ToString(n)
    ELSE ToString(n)

QuantityText(entry) ==
    IF entry.qtype = "bool"
    THEN (IF entry.quantity = 0 THEN "False" ELSE "True")
    ELSE IF entry.qtype = "float"
    THEN ToString(entry.quantity) \o ".0"
    ELSE IF entry.limbs = 0 THEN ToString(entry.quantity)
    ELSE IF entry.limbs > 0
    THEN ToString(entry.limbs) \o LimbText(entry.quantity)
    ELSE "-" \o ToString(0 - entry.limbs) \o LimbText(0 - entry.quantity)

validate_pricing_version(pricing_version) ==
    IF pricing_version \in {"latest", meta.pricing_version} THEN NoError
    ELSE PricingError("PRICING_VERSION_NOT_FOUND", "Pricing version not found",
                      [pricing_version |-> pricing_version])

validate_currency(currency) ==
    IF currency = meta.currency THEN NoError
    ELSE PricingError("INVALID_REQUEST", "Currency must be " \o meta.currency,
                      [currency |-> currency])

validate_mode(mode) ==
    IF mode \in {"strict", "lenient"} THEN NoError
    ELSE PricingError("INVALID_REQUEST", "Mode must be strict or lenient",
                      [mode |-> mode])

\* quantity < 0
NegativeQuantity(entry) ==
    entry.limbs < 0 \/ (entry.limbs = 0 /\ entry.quantity < 0)

\* quantity >= MAX_DIMENSION_QUANTITY: the upper bound taken as exclusive
ReachesMaxQuantity(entry) ==
    entry.limbs + entry.quantity \div QuantityLimb >= MaxQuantityLimbs

\* quantity > MAX_DIMENSION_QUANTITY, for a quantity that is not negative
ExceedsMaxQuantity(entry) ==
    \/ entry.limbs + entry.quantity \div QuantityLimb > MaxQuantityLimbs
    \/ /\ entry.limbs + entry.quantity \div QuantityLimb = MaxQuantityLimbs
       /\ entry.quantity % QuantityLimb > 0

validate_usage_entry(entry) ==
    IF entry.dimension = ""
    THEN PricingError("INVALID_REQUEST",
                      "Usage dimensions must be non-empty strings",
                      [dimension |-> entry.dimension])
    ELSE IF entry.qtype # "int"
    THEN PricingError("INVALID_REQUEST", "Usage quantities must be integers",
                      [dimension |-> entry.dimension,
                       quantity |-> QuantityText(entry)])
    ELSE IF NegativeQuantity(entry) \/ ExceedsMaxQuantity(entry)
    THEN PricingError("INVALID_REQUEST", "Usage quantity out of range",
                      [dimension |-> entry.dimension, min |-> "0",
                       max |-> "10000000000",
                       quantity |-> QuantityText(entry)])
    ELSE NoError

RECURSIVE validate_usage(_)
validate_usage(usage) ==
    IF usage = <<>> THEN NoError
    ELSE LET e == validate_usage_entry(Head(usage))
         IN  IF e.raised THEN e ELSE validate_usage(Tail(usage))

\* usage.get("input_tokens_uncached", 0) + ... for the synthetic dimension
resolve_dimension(dimension, usage) ==
    IF dimension = "context_tokens"
    THEN UsageGet(usage, "input_tokens_uncached")
         + UsageGet(usage, "input_tokens_cached")
    ELSE UsageGet(usage, dimension)

\* sorted(pricing_tiers, key=gt, reverse=True): stable, equal keys keep
\* their declared order
RECURSIVE InsertTier(_, _)
InsertTier(tier, sorted) ==
    IF sorted = <<>> THEN <<tier>>
    ELSE IF Head(sorted).condition.gt >= tier.condition.gt
    THEN <<Head(sorted)>> \o InsertTier(tier, Tail(sorted))
    ELSE <<tier>> \o sorted

RECURSIVE SortTiers(_, _)
SortTiers(tiers, sorted) ==
    IF tiers = <<>> THEN sorted
    ELSE SortTiers(Tail(tiers), InsertTier(Head(tiers), sorted))

TierWarning(tier, value) ==
    "Pricing tier applied: " \o tier.condition.dimension \o " "
    \o ToString(value) \o " > " \o ToString(tier.condition.gt) \o "."

\* the loop over the sorted tiers: [rate_map, tier_warning]
RECURSIVE select_tier(_, _, _)
select_tier(tiers, usage, rate_map) ==
    IF tiers = <<>> THEN [rate_map |-> rate_map, tier_warning |-> ""]
    ELSE LET tier == Head(tiers)
             value == resolve_dimension(tier.condition.dimension, usage)
         IN  IF value > tier.condition.gt
             THEN [rate_map |-> tier.billable,
                   tier_warning |-> TierWarning(tier, value)]
             ELSE select_tier(Tail(tiers), usage, rate_map)

RateMapResult(self, error, resolved_model, rate_map, tier_warning) ==
    [ self |-> self, error |-> error, resolved |-> ~error.raised,
      resolved_model |-> resolved_model, rate_map |-> rate_map,
      tier_warning |-> tier_warning ]

\* mutant of resolve_from_override: the provider is resolved all the same
resolve_from_override_after_lookup(self, provider, model, usage, override_ratecard) ==
    LET s1 == resolve_provider(self, provider).self
    IN  IF override_ratecard.currency # meta.currency
        THEN RateMapResult(s1,
                PricingError("INVALID_REQUEST",
                             "Override currency must be " \o meta.currency,
                             [currency |-> override_ratecard.currency]),
                "", EmptyMap, "")
        ELSE RateMapResult(s1, NoError, model, override_ratecard.billable, "")

\* the branch of _resolve_rate_map taken when override_ratecard is not None
resolve_from_override(self, provider, model, usage, override_ratecard) ==
    IF override_ratecard.currency # meta.currency
    THEN RateMapResult(self,
            PricingError("INVALID_REQUEST",
                         "Override currency must be " \o meta.currency,
                         [currency |-> override_ratecard.currency]),
            "", EmptyMap, "")
    ELSE RateMapResult(self, NoError, model, override_ratecard.billable, "")

\* the base ratecard of the model, or that of the tier that applies
resolve_tier(self, resolved_model, sel) ==
    RateMapResult(self, NoError, resolved_model, sel.rate_map, sel.tier_warning)

\* _resolve_rate_map once the model id is resolved: model data and tier
resolve_for_model(provider, model, usage, provider_data, m) ==
    IF m.ret \notin DOMAIN provider_data.models
    THEN RateMapResult(m.self,
            PricingError("MODEL_NOT_FOUND", "Model not found",
                         [provider |-> provider, model |-> model]),
            "", EmptyMap, "")
    ELSE resolve_tier(m.self, m.ret,
            select_tier(
                SortTiers(provider_data.models[m.ret].pricing_tiers, <<>>),
                usage, provider_data.models[m.ret].billable))

\* _resolve_rate_map once get_provider has returned (or raised)
resolve_for_provider(provider, model, usage, g) ==
    IF g.raised # ""
    THEN RateMapResult(g.self, Crash(g.raised), "", EmptyMap, "")
    ELSE IF ~g.found
    THEN RateMapResult(g.self,
            PricingError("PROVIDER_NOT_SUPPORTED", "Provider not supported",
                         [provider |-> provider]),
            "", EmptyMap, "")
    ELSE resolve_for_model(provider, model, usage, g.ret,
                           resolve_model(g.self, provider, model))

\* the rest of _resolve_rate_map: provider, model and tier from the registry
resolve_from_registry(self, provider, model, usage, override_ratecard) ==
    resolve_for_provider(provider, model, usage, get_provider(self, provider))

\* mutant of resolve_rate_map: the provider must exist, override or not
resolve_rate_map_known_provider(self, provider, model, usage, override_ratecard) ==
    LET g == get_provider(self, provider)
    IN  IF override_ratecard.present /\ (g.found \/ g.raised # "")
        THEN resolve_from_override(self, provider, model, usage,
                                   override_ratecard)
        ELSE resolve_from_registry(self, provider, model, usage,
                                   override_ratecard)

resolve_rate_map(self, provider, model, usage, override_ratecard) ==
    IF override_ratecard.present
    THEN resolve_from_override(self, provider, model, usage, override_ratecard)
    ELSE resolve_from_registry(self, provider, model, usage, override_ratecard)

\* Decimal(quantity) of the int an entry of the usage dict holds
DecimalOfQuantity(entry) ==
    IF entry.limbs = 0 THEN DecimalOfInt(entry.quantity)
    ELSE Decimal(IF entry.limbs < 0 THEN 1 ELSE 0,
                 DigitsOfNat(IF entry.limbs < 0 THEN -entry.limbs
                             ELSE entry.limbs)
                 \o PadLeft(DigitsOfNat(IF entry.quantity < 0
                                        THEN -entry.quantity
                                        ELSE entry.quantity),
                            Len(DigitsOfNat(QuantityLimb)) - 1),
                 0)

\* (quantity_decimal / ONE_MILLION) * rate.value
cost_per_1m(quotient, rate) ==
    IF quotient.raised # "" THEN quotient
    ELSE DecimalTimes(quotient.value, rate.value)

\* _compute_cost of the quantity an entry holds: a Decimal, or the exception
\* the arithmetic raises
compute_cost(quantity, rate) ==
    IF rate.kind = "per_1m"
    THEN cost_per_1m(DecimalOver(DecimalOfQuantity(quantity), ONE_MILLION),
                     rate)
    ELSE DecimalTimes(DecimalOfQuantity(quantity), rate.value)

\* format(quantized, "f"), or the exception quantize raised
fixed_text(quantized) ==
    [ raised |-> quantized.raised,
      text |-> IF quantized.raised # "" THEN ""
               ELSE FormatFixed(quantized.value) ]

\* value.quantize(COST_QUANTIZER, rounding=ROUND_HALF_UP) keeps the sign, of
\* a result that is zero too
to_fixed_6(value) ==
    fixed_text(DecimalQuantize(value, COST_QUANTIZER, "ROUND_HALF_UP"))

\* sorted(usage): the keys in ascending str order
RECURSIVE InsertKey(_, _)
InsertKey(key, sorted) ==
    IF sorted = <<>> THEN <<key>>
    ELSE IF StrLess(key, Head(sorted)) THEN <<key>> \o sorted
    ELSE <<Head(sorted)>> \o InsertKey(key, Tail(sorted))

RECURSIVE SortKeys(_, _)
SortKeys(usage, sorted) ==
    IF usage = <<>> THEN sorted
    ELSE SortKeys(Tail(usage), InsertKey(Head(usage).dimension, sorted))

\* mutant of sorted_usage: the keys in insertion order
usage_in_insertion_order(usage) ==
    [i \in 1..Len(usage) |-> usage[i].dimension]

sorted_usage(usage) == SortKeys(usage, <<>>)

\* mutant of handle_unsupported_dimension: strict mode only warns
handle_unsupported_warn_only(mode, provider, model, dimension, warnings) ==
    [ error |-> NoError,
      warnings |-> Append(warnings,
          "Ignored unsupported dimension '" \o dimension
          \o "' for provider '" \o provider \o "' model '" \o model
          \o "'") ]

\* mutant of handle_unsupported_dimension: lenient mode raises as well
handle_unsupported_raise_always(mode, provider, model, dimension, warnings) ==
    [ error |-> PricingError("UNSUPPORTED_DIMENSION", "Unsupported dimension",
                             [provider |-> provider, model |-> model,
                              dimension |-> dimension]),
      warnings |-> warnings ]

\* mutant of handle_unsupported_dimension: the warning is put first
handle_unsupported_warns_first(mode, provider, model, dimension, warnings) ==
    IF mode = "strict"
    THEN [ error |-> PricingError("UNSUPPORTED_DIMENSION",
                                  "Unsupported dimension",
                                  [provider |-> provider, model |-> model,
                                   dimension |-> dimension]),
           warnings |-> warnings ]
    ELSE [ error |-> NoError,
           warnings |-> << "Ignored unsupported dimension '" \o dimension
                           \o "' for provider '" \o provider
                           \o "' model '" \o model \o "'" >> \o warnings ]

\* [error, warnings]
handle_unsupported_dimension(mode, provider, model, dimension, warnings) ==
    IF mode = "strict"
    THEN [ error |-> PricingError("UNSUPPORTED_DIMENSION",
                                  "Unsupported dimension",
                                  [provider |-> provider, model |-> model,
                                   dimension |-> dimension]),
           warnings |-> warnings ]
    ELSE [ error |-> NoError,
           warnings |-> Append(warnings,
               "Ignored unsupported dimension '" \o dimension
               \o "' for provider '" \o provider \o "' model '" \o model
               \o "'") ]

\* total_raw += cost_raw: the sum, or the exception the addition raises
accumulate(total_raw, cost_raw) == DecimalPlus(total_raw, cost_raw)

\* the breakdown entry of a dimension whose cost is in total_raw
bill_line(acc, dimension, quantity, rate, total_raw, cost) ==
    IF cost.raised # "" THEN [acc EXCEPT !.error = Crash(cost.raised)]
    ELSE [acc EXCEPT
            !.total_raw = total_raw,
            !.breakdown = Append(@,
                BreakdownItem(dimension, Quantity(quantity), rate.raw,
                              cost.text))]

\* total_raw += cost_raw, then the breakdown entry
bill_cost(acc, dimension, quantity, rate, cost_raw, total_raw) ==
    IF total_raw.raised # ""
    THEN [acc EXCEPT !.error = Crash(total_raw.raised)]
    ELSE bill_line(acc, dimension, quantity, rate, total_raw.value,
                   to_fixed_6(cost_raw))

\* the body of the loop for a dimension that has a rate: the locals after
\* it, error set when a Decimal operation raised
bill_dimension(acc, dimension, quantity, rate, cost_raw) ==
    IF cost_raw.raised # ""
    THEN [acc EXCEPT !.error = Crash(cost_raw.raised)]
    ELSE bill_cost(acc, dimension, quantity, rate, cost_raw.value,
                   accumulate(acc.total_raw, cost_raw.value))

\* mutant of estimate_loop: a quantity of 0 is not skipped before the
\* support check
RECURSIVE estimate_loop_checks_zero(_, _, _, _, _, _, _)
estimate_loop_checks_zero(dims, usage, mode, provider, resolved_model, rate_map, acc) ==
    IF dims = <<>> THEN acc
    ELSE
    LET dimension == Head(dims)
        quantity == Quantity(usage[UsageAt(usage, dimension)])
        rest == Tail(dims)
    IN  IF \/ dimension \notin SUPPORTED_BILLABLE_DIMENSIONS
           \/ dimension \notin DOMAIN rate_map
        THEN LET h == handle_unsupported_dimension(mode, provider,
                          resolved_model, dimension, acc.warnings)
             IN  IF h.error.raised
                 THEN [acc EXCEPT !.error = h.error]
                 ELSE estimate_loop_checks_zero(rest, usage, mode, provider,
                                    resolved_model, rate_map,
                                    [acc EXCEPT !.warnings = h.warnings])
        ELSE IF quantity = 0
        THEN estimate_loop_checks_zero(rest, usage, mode, provider,
                                       resolved_model, rate_map, acc)
        ELSE LET rate == rate_map[dimension]
                 billed == bill_dimension(acc, dimension,
                               usage[UsageAt(usage, dimension)], rate,
                               compute_cost(usage[UsageAt(usage, dimension)],
                                            rate))
             IN  IF billed.error.raised THEN billed
                 ELSE estimate_loop_checks_zero(rest, usage, mode, provider,
                                                resolved_model, rate_map,
                                                billed)

\* the loop of estimate over sorted(usage); acc holds its local variables
RECURSIVE estimate_loop(_, _, _, _, _, _, _)
estimate_loop(dims, usage, mode, provider, resolved_model, rate_map, acc) ==
    IF dims = <<>> THEN acc
    ELSE
    LET dimension == Head(dims)
        quantity == Quantity(usage[UsageAt(usage, dimension)])
        rest == Tail(dims)
    IN  IF quantity = 0
        THEN estimate_loop(rest, usage, mode, provider, resolved_model,
                           rate_map, acc)
        ELSE IF \/ dimension \notin SUPPORTED_BILLABLE_DIMENSIONS
                \/ dimension \notin DOMAIN rate_map
        THEN LET h == handle_unsupported_dimension(mode, provider,
                          resolved_model, dimension, acc.warnings)
             IN  IF h.error.raised
                 THEN [acc EXCEPT !.error = h.error]
                 ELSE estimate_loop(rest, usage, mode, provider,
                                    resolved_model, rate_map,
                                    [acc EXCEPT !.warnings = h.warnings])
        ELSE LET rate == rate_map[dimension]
                 billed == bill_dimension(acc, dimension,
                               usage[UsageAt(usage, dimension)], rate,
                               compute_cost(usage[UsageAt(usage, dimension)],
                                            rate))
             IN  IF billed.error.raised THEN billed
                 ELSE estimate_loop(rest, usage, mode, provider,
                                    resolved_model, rate_map, billed)

\* what a call of estimate leaves behind: a result or an exception
Failure(error) ==
    [ status |-> IF error.exc = "PricingError" THEN "error" ELSE "crash",
      exc |-> error.exc, code |-> error.code, message |-> error.message,
      status_code |-> error.status_code, details |-> error.details,
      pricing_version |-> "", provider |-> "", model |-> "",
      breakdown |-> <<>>, currency |-> "", total_cost |-> "",
      warnings |-> <<>>, engine_version |-> "" ]

EstimateResult(pricing_version, provider, model, breakdown, currency, total_cost, warnings, engine_version) ==
    [ status |-> "ok", exc |-> "", code |-> "", message |-> "",
      status_code |-> 0,
      details |-> EmptyMap,
      pricing_version |-> pricing_version, provider |-> provider,
      model |-> model, breakdown |-> breakdown, currency |-> currency,
      total_cost |-> total_cost, warnings |-> warnings,
      engine_version |-> engine_version ]

\* mutant of validate_request: the usage entries are checked first
validate_request_usage_first(req) ==
    LET e1 == validate_pricing_version(req.pricing_version)
        e2 == validate_currency(req.currency)
        e3 == validate_mode(req.mode)
        e4 == validate_usage(req.usage)
    IN  IF e4.raised THEN e4
        ELSE IF e1.raised THEN e1
        ELSE IF e2.raised THEN e2
        ELSE e3

\* the four checks estimate makes first: the error of the first that fails
validate_request(req) ==
    LET e1 == validate_pricing_version(req.pricing_version)
        e2 == validate_currency(req.currency)
        e3 == validate_mode(req.mode)
        e4 == validate_usage(req.usage)
    IN  IF e1.raised THEN e1
        ELSE IF e2.raised THEN e2
        ELSE IF e3.raised THEN e3
        ELSE e4

\* the locals of estimate once _resolve_rate_map has returned
NoRates ==
    [resolved |-> FALSE, resolved_model |-> "", rate_map |-> EmptyMap,
     tier_warning |-> ""]
Rates(r) ==
    [resolved |-> TRUE, resolved_model |-> r.resolved_model,
     rate_map |-> r.rate_map, tier_warning |-> r.tier_warning]

\* [self |-> repository after the call, out |-> result or exception,
\*  rates |-> what _resolve_rate_map returned, if it returned]
EstimateReturn(self, out, rates) == [self |-> self, out |-> out, rates |-> rates]

\* estimate once total_cost = self._to_fixed_6(total_raw) has returned or
\* raised: the result, of the given pricing version
estimate_total(pricing_version, req, r, acc, total_cost) ==
    IF total_cost.raised # ""
    THEN EstimateReturn(r.self, Failure(Crash(total_cost.raised)), Rates(r))
    ELSE EstimateReturn(r.self,
            EstimateResult(pricing_version, req.provider, r.resolved_model,
                           acc.breakdown, meta.currency, total_cost.text,
                           acc.warnings, ENGINE_VERSION),
            Rates(r))

\* mutant of estimate_result: the result carries the version the caller
\* asked for
estimate_result_requested_version(req, r, acc) ==
    IF acc.error.raised
    THEN EstimateReturn(r.self, Failure(acc.error), Rates(r))
    ELSE estimate_total(req.pricing_version, req, r, acc,
                        to_fixed_6(acc.total_raw))

\* estimate once its loop has ended: the exception it raised, or the result
estimate_result(req, r, acc) ==
    IF acc.error.raised
    THEN EstimateReturn(r.self, Failure(acc.error), Rates(r))
    ELSE estimate_total(meta.pricing_version, req, r, acc,
                        to_fixed_6(acc.total_raw))

\* estimate once _resolve_rate_map has returned (or raised): the loop
estimate_resolved(req, r) ==
    IF r.error.raised
    THEN EstimateReturn(r.self, Failure(r.error), NoRates)
    ELSE estimate_result(req, r,
            estimate_loop(sorted_usage(req.usage), req.usage, req.mode,
                          req.provider, r.resolved_model, r.rate_map,
                          [ total_raw |-> Decimal(0, <<0>>, 0),
                            warnings |-> IF r.tier_warning # ""
                                         THEN <<r.tier_warning>> ELSE <<>>,
                            breakdown |-> <<>>,
                            error |-> NoError ]))

\* estimate once its four checks are made
estimate_validated(self, req, e) ==
    IF e.raised THEN EstimateReturn(self, Failure(e), NoRates)
    ELSE estimate_resolved(req,
            resolve_rate_map(self, req.provider, req.model, req.usage,
                             req.override_ratecard))

estimate(self, req) == estimate_validated(self, req, validate_request(req))

\* ------------------------------------------------------------------------
\* Calls made by the clients of the engine and of the registry
\* ------------------------------------------------------------------------
Request(provider, model, usage, mode, pricing_version, currency, override_ratecard) ==
    [ provider |-> provider, model |-> model, usage |-> usage, mode |-> mode,
      pricing_version |-> pricing_version, currency |-> currency,
      override_ratecard |-> override_ratecard ]

\* usage dicts of at most MaxUsage entries, in every insertion order
UsagesOver(entries) ==
    { u \in UNION { [1..n -> entries] : n \in 0..MaxUsage } :
        \A i, j \in 1..Len(u) : i # j => u[i].dimension # u[j].dimension }

\* usage dicts of at most MaxUsage entries, inserted in ascending key order
SortedUsagesOver(entries) ==
    { u \in UsagesOver(entries) :
        \A i, j \in 1..Len(u) :
            i < j => StrLess(u[i].dimension, u[j].dimension) }

\* usage dicts inserted in ascending or in descending key order
MonotoneUsagesOver(entries) ==
    { u \in UsagesOver(entries) :
        \/ \A i, j \in 1..Len(u) :
              i < j => StrLess(u[i].dimension, u[j].dimension)
        \/ \A i, j \in 1..Len(u) :
              i < j => StrLess(u[j].dimension, u[i].dimension) }

ProbeEntries ==
    { UsageEntry("output_tokens", 1, "int"),
      UsageEntry("output_tokens", -1, "int"),
      UsageEntry("requests", 1, "bool"),
      UsageEntry("", 1, "int"),
      UsageEntry("video_seconds", MaxQty, "int") }

OverrideEntries ==
    { UsageEntry(d, q, "int") :
        d \in { "input_tokens_cached", "input_tokens_uncached",
                "output_tokens", "requests", "video_seconds" },
        q \in 0..MaxQty }

RegistryEntries ==
    { UsageEntry(d, q, "int") :
        d \in { "input_tokens_cached", "input_tokens_uncached",
                "output_tokens" },
        q \in 0..MaxQty }

OverrideBillable ==
    [ input_tokens_uncached |-> Rate("per_1m", Decimal(0, <<5>>, -1), "0.5"),
      output_tokens         |-> Rate("per_1m", Decimal(0, <<1, 2, 5>>, -2), "1.25"),
      requests              |-> Rate("per_unit", Decimal(0, <<2, 5>>, -2), "0.25"),
      video_seconds         |-> Rate("per_unit", Decimal(0, <<1>>, 0), "1") ]

OverrideUSD == OverrideRatecard("USD", OverrideBillable)
OverrideEUR == OverrideRatecard("EUR", OverrideBillable)

Providers == {"google", "vertex", "gcp", "sandbox", "lab", "nope"}
Models == {"gemini-2.5-pro", "gemini", "gemini-multi", "ghost"}

\* requests that fail one or several checks
ProbeRequests ==
    { Request(p, "gemini-2.5-pro", u, m, v, c, o) :
        p \in {"google", "nope"}, u \in UsagesOver(ProbeEntries),
        m \in {"strict", "lenient", "fast"},
        v \in {"latest", "2026-02-22", "2025-01-01"},
        c \in {"USD", "EUR"}, o \in {NoOverride, OverrideUSD, OverrideEUR} }

\* well-formed requests priced with an override ratecard
OverrideRequests ==
    { Request(p, m, u, md, "latest", "USD", OverrideUSD) :
        p \in {"google", "nope"}, m \in {"gemini"},
        u \in MonotoneUsagesOver(OverrideEntries), md \in {"strict", "lenient"} }

\* well-formed requests priced from the registry
RegistryRequests ==
    { Request(p, m, u, md, "latest", "USD", NoOverride) :
        p \in Providers, m \in Models,
        u \in SortedUsagesOver(RegistryEntries), md \in {"strict", "lenient"} }

Requests == ProbeRequests \cup OverrideRequests \cup RegistryRequests

NoRequest == Request("", "", <<>>, "", "", "", NoOverride)
NoOutcome == [Failure(NoError) EXCEPT !.status = "none"]

\* no call is in progress on a worker thread
NoThreads == <<>>

Call(op, req, out, ret, rates) ==
    [op |-> op, req |-> req, out |-> out, ret |-> ret, rates |-> rates]

\* no call is in progress: the previous one has returned to its caller
Idle == Call("idle", NoRequest, NoOutcome, "", NoRates)

Install(self) ==
    /\ provider_cache' = self.provider_cache
    /\ model_aliases' = self.model_aliases
    /\ provider_aliases' = self.provider_aliases
    /\ UNCHANGED << files, meta, provider_files, threads >>

\* PricingRepository.__init__ on one of the registries
Init ==
    /\ files \in Registries
    /\ meta = load_meta
    /\ provider_files = discover_providers
    /\ provider_cache = EmptyMap
    /\ model_aliases = NoneMap
    /\ provider_aliases = NoneMap
    /\ last = Idle
    /\ threads = NoThreads

\* BillingEngine.estimate(...)
Estimate ==
    /\ last = Idle
    /\ \E req \in Requests :
        LET r == estimate(Self, req)
        IN  /\ Install(r.self)
            /\ last' = Call("estimate", req, r.out, "", r.rates)

\* PricingRepository.get_provider(provider)
GetProvider ==
    /\ last = Idle
    /\ \E provider \in Providers :
        LET g == get_provider(Self, provider)
        IN  /\ Install(g.self)
            /\ last' = Call("get_provider",
                            [NoRequest EXCEPT !.provider = provider],
                            IF g.raised # "" THEN Failure(Crash(g.raised))
                            ELSE NoOutcome,
                            IF g.found THEN g.ret.provider ELSE "",
                            NoRates)

\* PricingRepository.resolve_provider(provider)
ResolveProvider ==
    /\ last = Idle
    /\ \E provider \in Providers :
        LET r == resolve_provider(Self, provider)
        IN  /\ Install(r.self)
            /\ last' = Call("resolve_provider",
                            [NoRequest EXCEPT !.provider = provider],
                            NoOutcome, r.ret, NoRates)

\* PricingRepository.resolve_model(provider, model)
ResolveModel ==
    /\ last = Idle
    /\ \E provider \in Providers, model \in Models :
        LET r == resolve_model(Self, provider, model)
        IN  /\ Install(r.self)
            /\ last' = Call("resolve_model",
                            [NoRequest EXCEPT !.provider = provider,
                                              !.model = model],
                            NoOutcome, r.ret, NoRates)

\* the caller takes the result (or the exception) of the call; the engine
\* and the registry keep nothing of a call but the caches
Return ==
    /\ last # Idle
    /\ last' = Idle
    /\ UNCHANGED << files, meta, provider_files, provider_cache,
                    model_aliases, provider_aliases, threads >>

Next == Estimate \/ GetProvider \/ ResolveProvider \/ ResolveModel \/ Return

Spec == Init /\ [][Next]_vars

TypeOK ==
    /\ files \in Registries
    /\ provider_aliases.loaded \in BOOLEAN
    /\ model_aliases.loaded \in BOOLEAN
    /\ last.out.status \in {"none", "ok", "error", "crash"}
    /\ meta = load_meta
    /\ provider_files = discover_providers

\* ------------------------------------------------------------------------
\* Vocabulary of the properties
\* ------------------------------------------------------------------------
IsEstimate == last.op = "estimate"
Succeeded == IsEstimate /\ last.out.status = "ok"
Req == last.req
Out == last.out

\* the quantity the usage map gives a key it holds
QuantityOf(usage, d) ==
    LET i == CHOOSE k \in 1..Len(usage) : usage[k].dimension = d
    IN  usage[i].quantity

NonZero(usage) == { d \in UsageKeys(usage) : QuantityOf(usage, d) > 0 }

\* the dimensions of a usage map that a ratecard bills
Billed(usage, ratecard) ==
    { d \in NonZero(usage) :
        d \in SUPPORTED_BILLABLE_DIMENSIONS /\ d \in DOMAIN ratecard }

\* the non-zero dimensions that are unsupported or unrated
Offending(usage, ratecard) == NonZero(usage) \ Billed(usage, ratecard)

\* the product of two Decimals, every digit kept
ExactTimes(a, b) ==
    Decimal(IF a.sign = b.sign THEN 0 ELSE 1, MulDigits(a.digits, b.digits),
            a.exponent + b.exponent)

\* a Decimal written at a smaller exponent, its value unchanged
AtExponent(d, exp) ==
    Decimal(d.sign, TrimZeros(d.digits \o Zeros(d.exponent - exp)), exp)

\* the sum of two Decimals of the same exponent, every digit kept
ExactPlusAligned(x, y) ==
    IF x.sign = y.sign
    THEN Decimal(x.sign, AddDigits(x.digits, y.digits), x.exponent)
    ELSE IF x.digits = y.digits THEN Decimal(0, <<0>>, x.exponent)
    ELSE IF LessDigits(x.digits, y.digits)
    THEN Decimal(y.sign, SubDigits(y.digits, x.digits), x.exponent)
    ELSE Decimal(x.sign, SubDigits(x.digits, y.digits), x.exponent)

ExactPlus(a, b) ==
    ExactPlusAligned(AtExponent(a, MinOf(a.exponent, b.exponent)),
                     AtExponent(b, MinOf(a.exponent, b.exponent)))

\* exact cost of one dimension: quantity * rate, a per_1m rate being a
\* price of 10^6 units
ExactCost(usage, ratecard, d) ==
    ExactTimes(Decimal(0, DigitsOfNat(QuantityOf(usage, d)),
                       IF ratecard[d].kind = "per_1m" THEN -6 ELSE 0),
               ratecard[d].value)

RECURSIVE SumOver(_, _, _)
SumOver(usage, ratecard, dims) ==
    IF dims = {} THEN Decimal(0, <<0>>, 0)
    ELSE LET d == CHOOSE x \in dims : TRUE
         IN  ExactPlus(ExactCost(usage, ratecard, d),
                       SumOver(usage, ratecard, dims \ {d}))

\* x rounded to 6 fractional digits, an exact half going away from zero,
\* in fixed-point notation
HalfUpMicros(x) == FormatPlain(Rescale(x, -6, "ROUND_HALF_UP"))

ExpectedTotal(usage, ratecard) ==
    HalfUpMicros(SumOver(usage, ratecard, Billed(usage, ratecard)))

BreakdownDims(breakdown) == { breakdown[i].dimension : i \in 1..Len(breakdown) }

\* ------------------------------------------------------------------------
\* Estimates whose costs need more than 28 significant digits
\* ------------------------------------------------------------------------
\* rates an override ratecard can carry: 4.9999999999999999999999999999E-7
\* has 29 significant digits; 1E+21 and 5E-7 have a sum of 29 digits
PreciseBillable ==
    [ requests |->
        Rate("per_unit", Decimal(0, <<4>> \o [i \in 1..28 |-> 9], -35),
             "0.00000049999999999999999999999999999"),
      input_tokens_cached |->
        Rate("per_unit", Decimal(0, <<1>>, 21), "1000000000000000000000"),
      input_tokens_uncached |->
        Rate("per_unit", Decimal(0, <<5>>, -7), "0.0000005"),
      output_tokens |->
        Rate("per_1m", Decimal(0, <<1, 2, 5>>, -2), "1.25") ]

PreciseEntries ==
    { UsageEntry(d, q, "int") : d \in DOMAIN PreciseBillable, q \in 0..MaxQty }

PreciseRequests ==
    { Request("nope", "gemini", u, md, "latest", "USD",
              OverrideRatecard("USD", PreciseBillable)) :
        u \in MonotoneUsagesOver(PreciseEntries), md \in {"strict", "lenient"} }

\* BillingEngine.estimate(...) with such an override ratecard
EstimatePrecise ==
    /\ last = Idle
    /\ \E req \in PreciseRequests :
        LET r == estimate(Self, req)
        IN  /\ Install(r.self)
            /\ last' = Call("estimate", req, r.out, "", r.rates)

NextPrecision == EstimatePrecise \/ Return

SpecPrecision == Init /\ [][NextPrecision]_vars

\* ------------------------------------------------------------------------
\* C1: for every successful estimate, total_cost is the exact sum of the
\* unrounded per-dimension costs of the billed dimensions, rounded half up
\* to 6 fractional digits once, after the summation.
\* ------------------------------------------------------------------------
C1_TotalIsRoundedExactSum ==
    Succeeded =>
        Out.total_cost = ExpectedTotal(Req.usage, last.rates.rate_map)

\* ------------------------------------------------------------------------
\* C2: the breakdown of a successful estimate has exactly one entry for each
\* usage dimension with quantity > 0 that is supported and rated in the
\* active ratecard, no other entry, and the entries are in ascending order
\* of dimension name whatever the insertion order of the usage map.
\* ------------------------------------------------------------------------
C2_BreakdownIsBilledSorted ==
    Succeeded =>
        LET b == Out.breakdown
            billed == Billed(Req.usage, last.rates.rate_map)
        IN  /\ BreakdownDims(b) = billed
            /\ Len(b) = Cardinality(billed)
            /\ \A i \in 1..Len(b) :
                 /\ b[i].quantity = QuantityOf(Req.usage, b[i].dimension)
                 /\ b[i].quantity > 0
                 /\ b[i].rate = last.rates.rate_map[b[i].dimension].raw
            /\ \A i, j \in 1..Len(b) :
                 i < j => StrLess(b[i].dimension, b[j].dimension)

\* two billed dimensions given in descending order
C2_Witness ==
    /\ Succeeded
    /\ Len(Req.usage) = 2
    /\ StrLess(Req.usage[2].dimension, Req.usage[1].dimension)
    /\ Len(Out.breakdown) = 2
    /\ Out.breakdown[1].dimension = Req.usage[2].dimension

\* ------------------------------------------------------------------------
\* C3: when a request fails several checks at once, estimate raises the
\* error of the earliest failing check in the order pricing_version,
\* currency, mode, usage entries; all four are decided before the
\* override-currency check and before any registry lookup.
\* ------------------------------------------------------------------------
BadVersion(req) == req.pricing_version \notin {"latest", files.meta.pricing_version}
BadCurrency(req) == req.currency # files.meta.currency
BadMode(req) == req.mode \notin {"strict", "lenient"}
BadEntry(e) == e.dimension = "" \/ e.qtype # "int" \/ e.quantity < 0
BadUsage(req) == \E i \in 1..Len(req.usage) : BadEntry(req.usage[i])
Invalid(req) == BadVersion(req) \/ BadCurrency(req) \/ BadMode(req) \/ BadUsage(req)

FailedWith(code, key) ==
    /\ Out.status = "error"
    /\ Out.code = code
    /\ key \in DOMAIN Out.details

C3_EarliestCheckWins ==
    IsEstimate =>
        /\ BadVersion(Req) =>
             /\ FailedWith("PRICING_VERSION_NOT_FOUND", "pricing_version")
             /\ Out.details.pricing_version = Req.pricing_version
        /\ ~BadVersion(Req) /\ BadCurrency(Req) =>
             /\ FailedWith("INVALID_REQUEST", "currency")
             /\ Out.details.currency = Req.currency
             /\ Out.message = "Currency must be " \o files.meta.currency
        /\ ~BadVersion(Req) /\ ~BadCurrency(Req) /\ BadMode(Req) =>
             /\ FailedWith("INVALID_REQUEST", "mode")
             /\ Out.details.mode = Req.mode
        /\ ~BadVersion(Req) /\ ~BadCurrency(Req) /\ ~BadMode(Req)
              /\ BadUsage(Req) =>
             /\ FailedWith("INVALID_REQUEST", "dimension")
             /\ \E i \in 1..Len(Req.usage) :
                  /\ BadEntry(Req.usage[i])
                  /\ Out.details.dimension = Req.usage[i].dimension
        /\ Invalid(Req) =>
             /\ ~last.rates.resolved
             /\ Out.code \notin { "PROVIDER_NOT_SUPPORTED", "MODEL_NOT_FOUND",
                                  "UNSUPPORTED_DIMENSION" }

\* every check fails at once, for an unknown provider and a foreign override
C3_Witness ==
    /\ IsEstimate
    /\ BadVersion(Req) /\ BadCurrency(Req) /\ BadMode(Req) /\ BadUsage(Req)
    /\ Req.provider = "nope"
    /\ Req.override_ratecard.present
    /\ Req.override_ratecard.currency # files.meta.currency
    /\ Out.code = "PRICING_VERSION_NOT_FOUND"

\* ------------------------------------------------------------------------
\* C4: in strict mode, once the ratecard is resolved, a usage dimension with
\* quantity > 0 that is unsupported or unrated makes estimate fail with
\* UNSUPPORTED_DIMENSION and no result; the details carry the provider, the
\* model and the smallest offending dimension.
\* ------------------------------------------------------------------------
Smallest(dims) == CHOOSE d \in dims : \A e \in dims : e = d \/ StrLess(d, e)

C4_StrictRejectsSmallestOffender ==
    ( /\ IsEstimate
      /\ last.rates.resolved
      /\ Req.mode = "strict"
      /\ Offending(Req.usage, last.rates.rate_map) # {} ) =>
        /\ Out.status = "error"
        /\ Out.code = "UNSUPPORTED_DIMENSION"
        /\ Out.breakdown = <<>> /\ Out.total_cost = "" /\ Out.warnings = <<>>
        /\ Out.details =
             [ provider |-> Req.provider,
               model |-> last.rates.resolved_model,
               dimension |-> Smallest(Offending(Req.usage, last.rates.rate_map)) ]

\* two offenders, one unrated and one unsupported, given in descending order
C4_Witness ==
    /\ IsEstimate
    /\ last.rates.resolved
    /\ Req.mode = "strict"
    /\ Len(Req.usage) = 2
    /\ UsageKeys(Req.usage) = Offending(Req.usage, last.rates.rate_map)
    /\ StrLess(Req.usage[2].dimension, Req.usage[1].dimension)
    /\ Out.code = "UNSUPPORTED_DIMENSION"
    /\ Out.details.dimension = Req.usage[2].dimension

\* ------------------------------------------------------------------------
\* C5: in lenient mode estimate never fails with UNSUPPORTED_DIMENSION: each
\* offending dimension adds exactly one warning, no breakdown entry and
\* nothing to the total, the other dimensions are billed as usual, and when
\* every non-zero dimension is skipped the total is "0.000000" with a
\* non-empty warnings list.
\* ------------------------------------------------------------------------
IgnoredWarning(d) ==
    "Ignored unsupported dimension '" \o d \o "' for provider '"
    \o Req.provider \o "' model '" \o last.rates.resolved_model \o "'"

C5_LenientSkipsWithWarning ==
    (IsEstimate /\ Req.mode = "lenient") =>
        /\ Out.code # "UNSUPPORTED_DIMENSION"
        /\ last.rates.resolved =>
             LET off == Offending(Req.usage, last.rates.rate_map)
                 billed == Billed(Req.usage, last.rates.rate_map)
                 own == IF last.rates.tier_warning = "" THEN 0 ELSE 1
             IN  /\ Out.status = "ok"
                 /\ Len(Out.warnings) = Cardinality(off) + own
                 /\ \A d \in off :
                      /\ Cardinality({ i \in 1..Len(Out.warnings) :
                                         Out.warnings[i] = IgnoredWarning(d) }) = 1
                      /\ d \notin BreakdownDims(Out.breakdown)
                 /\ BreakdownDims(Out.breakdown) = billed
                 /\ Out.total_cost = ExpectedTotal(Req.usage, last.rates.rate_map)
                 /\ (billed = {} /\ off # {}) =>
                      (Out.total_cost = "0.000000" /\ Out.warnings # <<>>)

\* one dimension billed and one skipped in the same lenient estimate
C5_Witness ==
    /\ Succeeded
    /\ Req.mode = "lenient"
    /\ Offending(Req.usage, last.rates.rate_map) # {}
    /\ Billed(Req.usage, last.rates.rate_map) # {}
    /\ Len(Out.warnings) = 1
    /\ Out.total_cost # "0.000000"

\* ------------------------------------------------------------------------
\* What the registry documents declare
\* ------------------------------------------------------------------------
\* the provider id an alias chain of the alias documents ends in
DeclaredProvider(p) ==
    resolve_provider_loop(load_provider_aliases, p, p, {})

DeclaredModelId(p, m) ==
    LET c == DeclaredProvider(p)
        a == load_model_aliases
    IN  IF c \in DOMAIN a /\ m \in DOMAIN a[c] THEN a[c][m] ELSE m

\* the entries of the provider document that declare model m of provider p
DeclaredEntries(p, m) ==
    LET c == DeclaredProvider(p)
    IN  IF c \notin DOMAIN files.providers THEN {}
        ELSE { e \in { files.providers[c].models[i] :
                         i \in 1..Len(files.providers[c].models) } :
                 e.model = DeclaredModelId(p, m) }

\* a well-formed request for a declared model, priced from the registry
ForDeclaredModel ==
    /\ IsEstimate
    /\ ~Invalid(Req)
    /\ ~Req.override_ratecard.present
    /\ DeclaredEntries(Req.provider, Req.model) # {}

DeclaredEntry == CHOOSE e \in DeclaredEntries(Req.provider, Req.model) : TRUE

Quantity0(usage, d) == IF d \in UsageKeys(usage) THEN QuantityOf(usage, d) ELSE 0

ConditionValue(condition, usage) ==
    IF condition.dimension = "context_tokens"
    THEN Quantity0(usage, "input_tokens_uncached")
         + Quantity0(usage, "input_tokens_cached")
    ELSE Quantity0(usage, condition.dimension)

Qualifying(tiers, usage) ==
    { i \in 1..Len(tiers) :
        ConditionValue(tiers[i].condition, usage) > tiers[i].condition.gt }

\* ------------------------------------------------------------------------
\* C6: without an override, the active ratecard of an estimate is the
\* ratecard of the qualifying tier with the greatest threshold, in whatever
\* order the tiers are declared, and the base ratecard when none qualifies.
\* ------------------------------------------------------------------------
C6_GreatestQualifyingTier ==
    ForDeclaredModel =>
        LET tiers == DeclaredEntry.pricing_tiers
            q == Qualifying(tiers, Req.usage)
            top == CHOOSE i \in q :
                     \A j \in q : tiers[j].condition.gt <= tiers[i].condition.gt
        IN  /\ last.rates.resolved
            /\ last.rates.rate_map =
                 IF q = {} THEN parse_billable(DeclaredEntry.billable)
                 ELSE parse_billable(tiers[top].billable)

\* ------------------------------------------------------------------------
\* C7: for a model with one tier the base ratecard applies, with no tier
\* warning, for every condition value <= threshold (the threshold included)
\* and the tier ratecard for every value > threshold.
\* ------------------------------------------------------------------------
C7_SingleTierThreshold ==
    (ForDeclaredModel /\ Len(DeclaredEntry.pricing_tiers) = 1) =>
        LET tier == DeclaredEntry.pricing_tiers[1]
            value == ConditionValue(tier.condition, Req.usage)
        IN  /\ last.rates.resolved
            /\ value <= tier.condition.gt =>
                 /\ last.rates.rate_map = parse_billable(DeclaredEntry.billable)
                 /\ last.rates.tier_warning = ""
            /\ value > tier.condition.gt =>
                 /\ last.rates.rate_map = parse_billable(tier.billable)
                 /\ last.rates.tier_warning # ""

\* ------------------------------------------------------------------------
\* C8: a tier condition on context_tokens is evaluated on
\* input_tokens_uncached + input_tokens_cached, an absent key counting as 0,
\* so that cached tokens alone or together with uncached ones push a request
\* over the threshold: the estimate then carries the tier warning that names
\* the summed value.
\* ------------------------------------------------------------------------
C8_ContextTokensIsTheSum ==
    ( /\ ForDeclaredModel
      /\ Len(DeclaredEntry.pricing_tiers) = 1
      /\ DeclaredEntry.pricing_tiers[1].condition.dimension = "context_tokens"
      /\ Req.mode = "lenient" ) =>
        LET gt == DeclaredEntry.pricing_tiers[1].condition.gt
            context == Quantity0(Req.usage, "input_tokens_uncached")
                       + Quantity0(Req.usage, "input_tokens_cached")
            warning == "Pricing tier applied: context_tokens "
                       \o ToString(context) \o " > " \o ToString(gt) \o "."
        IN  /\ Out.status = "ok"
            /\ (context > gt) <=>
                 (Out.warnings # <<>> /\ Out.warnings[1] = warning)

\* ------------------------------------------------------------------------
\* C9: with an override ratecard the outcome does not depend on the registry:
\* never PROVIDER_NOT_SUPPORTED or MODEL_NOT_FOUND, the override's rates
\* only, the caller's model string unresolved, no tier and no tier warning;
\* an override in a foreign currency fails with INVALID_REQUEST.
\* ------------------------------------------------------------------------
C9_OverrideBypassesRegistry ==
    (IsEstimate /\ Req.override_ratecard.present) =>
        LET o == Req.override_ratecard
        IN  /\ Out.status # "crash"
            /\ Out.code \notin {"PROVIDER_NOT_SUPPORTED", "MODEL_NOT_FOUND"}
            /\ (~Invalid(Req) /\ o.currency # files.meta.currency) =>
                 /\ FailedWith("INVALID_REQUEST", "currency")
                 /\ Out.details.currency = o.currency
                 /\ Out.message = "Override currency must be "
                                  \o files.meta.currency
            /\ (~Invalid(Req) /\ o.currency = files.meta.currency) =>
                 /\ last.rates.resolved
                 /\ last.rates.rate_map = o.billable
                 /\ last.rates.resolved_model = Req.model
                 /\ last.rates.tier_warning = ""
            /\ Succeeded =>
                 /\ Out.model = Req.model
                 /\ Out.provider = Req.provider
                 /\ \A i \in 1..Len(Out.breakdown) :
                      Out.breakdown[i].rate =
                        o.billable[Out.breakdown[i].dimension].raw
                 /\ Len(Out.warnings) = Cardinality(Offending(Req.usage, o.billable))
                 /\ Out.total_cost = ExpectedTotal(Req.usage, o.billable)

\* priced by the override for a provider the registry does not know, under a
\* model string the registry would have resolved as an alias
C9_Witness ==
    /\ Succeeded
    /\ Req.override_ratecard.present
    /\ DeclaredProvider(Req.provider) \notin DOMAIN files.providers
    /\ DeclaredModelId("google", Req.model) # Req.model
    /\ Out.model = Req.model
    /\ Out.breakdown # <<>>

\* ------------------------------------------------------------------------
\* C10: an estimate call that carries an override ratecard leaves the
\* provider cache, the provider-alias cache and the model-alias cache as they
\* were, whether it succeeds or fails.
\* ------------------------------------------------------------------------
C10_OverrideLeavesCaches ==
    [][ (last'.op = "estimate" /\ last'.req.override_ratecard.present) =>
          /\ provider_cache' = provider_cache
          /\ provider_aliases' = provider_aliases
          /\ model_aliases' = model_aliases ]_vars

\* an override estimate has returned and nothing has been loaded yet
C10_Witness ==
    /\ Succeeded
    /\ Req.override_ratecard.present
    /\ Req.provider = "google"
    /\ ~provider_aliases.loaded
    /\ ~model_aliases.loaded
    /\ provider_cache = EmptyMap

\* ------------------------------------------------------------------------
\* Provider alias resolution over every alias mapping of a few provider ids
\* ------------------------------------------------------------------------
MaxAliasIds == 3

ProviderOrder == <<"google", "vertex", "gcp", "lab", "sandbox">>

AliasIds == { ProviderOrder[i] : i \in 1..MaxAliasIds }

\* every provider_aliases mapping over the ids: chains, cycles, self-aliases
AliasMappings == UNION { [D -> AliasIds] : D \in SUBSET AliasIds }

AliasRegistries ==
    { [ meta |-> Meta,
        providers |-> [google |-> GoogleDoc(<<RawTierLow, RawTierHigh>>),
                       sandbox |-> EmptyDoc],
        aliases |-> << AliasDoc(FALSE, "", EmptyMap, mapping) >> ] :
      mapping \in AliasMappings }

\* PricingRepository.__init__ on one of the registries above
InitAliases ==
    /\ files \in AliasRegistries
    /\ meta = load_meta
    /\ provider_files = discover_providers
    /\ provider_cache = EmptyMap
    /\ model_aliases = NoneMap
    /\ provider_aliases = NoneMap
    /\ last = Idle
    /\ threads = NoThreads

NextAliases == ResolveProvider \/ Return

SpecAliases == InitAliases /\ [][NextAliases]_vars

IsResolveProvider == last.op = "resolve_provider"

\* the id k alias steps away from p (the chain stays at an id with no entry)
RECURSIVE ChainAt(_, _, _)
ChainAt(a, p, k) ==
    IF k = 0 THEN p
    ELSE LET q == ChainAt(a, p, k - 1)
         IN  IF q \in DOMAIN a THEN a[q] ELSE q

\* the end of the chain of p: an id with no entry, if the chain reaches one
ChainEnd(a, p) == ChainAt(a, p, Cardinality(DOMAIN a))
ChainEnds(a, p) == ChainEnd(a, p) \notin DOMAIN a

MappingIds(a) == DOMAIN a \cup { a[x] : x \in DOMAIN a }

\* C11: resolve_provider returns the id with no alias entry that the alias
\* chain of its input reaches (the input itself when it has no entry); when
\* the chain runs into a cycle, on or off the input, it returns the input
\* unchanged; it raises nothing.
C11_ResolveProviderFollowsChain ==
    IsResolveProvider =>
        LET a == load_provider_aliases
            p == last.req.provider
        IN  /\ last.out = NoOutcome
            /\ last.ret = IF ChainEnds(a, p) THEN ChainEnd(a, p) ELSE p

\* a chain that runs into a cycle the input is not on
C11_Witness ==
    /\ IsResolveProvider
    /\ LET a == load_provider_aliases
           p == last.req.provider
       IN  /\ ~ChainEnds(a, p)
           /\ \A k \in 1..(Cardinality(DOMAIN a) + 1) : ChainAt(a, p, k) # p
           /\ last.ret = p
           /\ provider_aliases.map = a

\* C12: the loop of resolve_provider ends on every alias mapping, cyclic or
\* not: it makes at most (number of ids of the mapping + 1) iterations and
\* no id is examined twice before the iteration that ends it.
C12_ResolveProviderTerminates ==
    IsResolveProvider =>
        LET a == load_provider_aliases
            p == last.req.provider
            it == resolve_provider_iterations(a, p, p, {})
        IN  /\ Len(it) <= Cardinality(MappingIds(a)) + 1
            /\ \A i, j \in 1..(Len(it) - 1) : i # j => it[i] # it[j]
            /\ last.ret \in {p, it[Len(it)]}

\* a cycle through every id: the bound on the iterations is met
C12_Witness ==
    /\ IsResolveProvider
    /\ LET a == load_provider_aliases
           p == last.req.provider
           it == resolve_provider_iterations(a, p, p, {})
       IN  /\ DOMAIN a = AliasIds
           /\ Len(it) = Cardinality(MappingIds(a)) + 1
           /\ Len(it) = MaxAliasIds + 1
           /\ last.ret = p

\* ------------------------------------------------------------------------
\* Estimates priced from the registry
\* ------------------------------------------------------------------------
\* a well-formed request priced from the registry
FromRegistry ==
    /\ IsEstimate
    /\ ~Invalid(Req)
    /\ ~Req.override_ratecard.present

HasDocument(p) == DeclaredProvider(p) \in DOMAIN files.providers

\* ------------------------------------------------------------------------
\* C14: without an override, a valid request fails with
\* PROVIDER_NOT_SUPPORTED exactly when its provider, once the alias chain is
\* followed, has no provider document; a request whose provider has a
\* document fails with MODEL_NOT_FOUND exactly when its model, once the
\* model alias is resolved, is not declared by that document; neither
\* failure leaves a ratecard or a cost behind.
\* ------------------------------------------------------------------------
C14_ProviderThenModel ==
    FromRegistry =>
        /\ (Out.status = "error" /\ Out.code = "PROVIDER_NOT_SUPPORTED")
             <=> ~HasDocument(Req.provider)
        /\ HasDocument(Req.provider) =>
             ( (Out.status = "error" /\ Out.code = "MODEL_NOT_FOUND")
               <=> DeclaredEntries(Req.provider, Req.model) = {} )
        /\ Out.status = "error" =>
             (~last.rates.resolved /\ Out.breakdown = <<>>)

\* a registry on which nothing has been looked up yet
FreshSelf ==
    [ provider_cache |-> EmptyMap, model_aliases |-> NoneMap,
      provider_aliases |-> NoneMap ]

\* what the same call gives on the same registry with empty caches
FirstOutcome == estimate(FreshSelf, Req).out

\* two outcomes agree on what the caller sees of them
SameOutcome(a, b) ==
    /\ a.status = b.status
    /\ a.exc = b.exc
    /\ a.code = b.code
    /\ a.breakdown = b.breakdown
    /\ a.total_cost = b.total_cost
    /\ a.model = b.model
    /\ a.provider = b.provider

\* ------------------------------------------------------------------------
\* C15: the outcome of an estimate depends on its inputs and on the registry
\* files only: whatever calls ran before it and whatever the provider and
\* alias caches hold, it gives the breakdown, total_cost, model and provider
\* (or the error) that the same call gives on empty caches, so two calls
\* with identical inputs agree.
\* ------------------------------------------------------------------------
C15_SameInputsSameOutcome == IsEstimate => SameOutcome(Out, FirstOutcome)

\* an estimate priced from the registry on caches that earlier calls filled:
\* this call ended in get_provider, so it did not load the model aliases
C15_Witness ==
    /\ FromRegistry
    /\ HasDocument(Req.provider)
    /\ Out.status # "ok"
    /\ Out.code # "MODEL_NOT_FOUND"
    /\ model_aliases.loaded
    /\ provider_cache # EmptyMap

\* ------------------------------------------------------------------------
\* Batch route (app/api/routes.py)
\* ------------------------------------------------------------------------
MaxBatch == 2

GATEWAY_MODE_WARNING ==
    "gateway_pricing_mode is not yet implemented; "
    \o "all requests use registry pricing regardless of this setting"

\* EstimateOptions, EstimateRequest of app/api/schemas.py
EstimateOptions(pricing_version, mode, gateway_pricing_mode) ==
    [ pricing_version |-> pricing_version, mode |-> mode,
      gateway_pricing_mode |-> gateway_pricing_mode ]

\* ratecard: [present, currency, billable], billable maps a dimension to a
\* RateSpec [per_1m |-> Num] or [per_unit |-> Num]
EstimateRequest(provider, model, usage, options, ratecard) ==
    [ provider |-> provider, model |-> model, usage |-> usage,
      options |-> options, ratecard |-> ratecard ]

\* _to_decimal_string(value): format(value, "f")
to_decimal_string(value) == FormatFixed(value)

\* the raw text of a Rate is written anew from the Decimal the schema
\* parsed, not taken from the payload
to_override_ratecard(payload) ==
    IF ~payload.ratecard.present THEN NoOverride
    ELSE OverrideRatecard(
            payload.ratecard.currency,
            [ dimension \in DOMAIN payload.ratecard.billable |->
                LET spec == payload.ratecard.billable[dimension]
                IN  IF "per_1m" \in DOMAIN spec
                    THEN Rate("per_1m", spec["per_1m"].value,
                              to_decimal_string(spec["per_1m"].value))
                    ELSE Rate("per_unit", spec["per_unit"].value,
                              to_decimal_string(spec["per_unit"].value)) ])

\* mutant of check_gateway_mode: only registry_only is taken for non-default
check_gateway_mode_registry_only(options_mode) ==
    IF options_mode = "registry_only" THEN <<GATEWAY_MODE_WARNING>> ELSE <<>>

\* the extra warnings of a response: [gw_warning] if gw_warning else None
check_gateway_mode(options_mode) ==
    IF options_mode # "prefer_gateway" THEN <<GATEWAY_MODE_WARNING>> ELSE <<>>

estimate_response_from_result(result, extra_warnings) ==
    [ pricing_version |-> result.pricing_version,
      provider |-> result.provider, model |-> result.model,
      breakdown |-> result.breakdown,
      total |-> [currency |-> result.currency, cost |-> result.total_cost],
      warnings |-> result.warnings \o extra_warnings,
      meta |-> [engine_version |-> result.engine_version] ]

BatchErrorItem(index, exc) ==
    [ index |-> index,
      error |-> [code |-> exc.code, message |-> exc.message,
                 details |-> exc.details] ]

\* the default of the currency parameter of BillingEngine.estimate
DEFAULT_CURRENCY == "USD"

\* the arguments the routes pass to engine.estimate (currency is defaulted)
engine_arguments(item) ==
    Request(item.provider, item.model, item.usage, item.options.mode,
            item.options.pricing_version, DEFAULT_CURRENCY,
            to_override_ratecard(item))

\* what estimate_batch leaves behind: its response, or the exception that
\* escapes it
BatchReturn(self, aborted, results, errors) ==
    [ self |-> self, aborted |-> aborted,
      pricing_version |-> IF aborted = "" THEN meta.pricing_version ELSE "",
      results |-> results, errors |-> errors ]

RECURSIVE estimate_batch_loop(_, _, _, _, _)

\* the body of the loop of estimate_batch once engine.estimate has returned
\* or raised (r); index is zero-based
estimate_batch_item(items, index, results, errors, r) ==
    IF r.out.status = "crash"
    THEN BatchReturn(r.self, r.out.exc, <<>>, <<>>)
    ELSE IF r.out.status = "error"
    THEN estimate_batch_loop(r.self, items, index + 1, results,
                             Append(errors, BatchErrorItem(index, r.out)))
    ELSE estimate_batch_loop(r.self, items, index + 1,
            Append(results,
                   estimate_response_from_result(
                       r.out,
                       check_gateway_mode(
                           items[index + 1].options.gateway_pricing_mode))),
            errors)

estimate_batch_loop(self, items, index, results, errors) ==
    IF index >= Len(items) THEN BatchReturn(self, "", results, errors)
    ELSE estimate_batch_item(items, index, results, errors,
                             estimate(self, engine_arguments(items[index + 1])))

estimate_batch(self, items) == estimate_batch_loop(self, items, 0, <<>>, <<>>)

\* payloads that pass the request schema
DefaultOptions == EstimateOptions("latest", "strict", "prefer_gateway")

RatecardUSD ==
    [ present |-> TRUE, currency |-> "USD",
      billable |-> [ output_tokens |-> [per_1m |-> Num("1.25", 0, <<1, 2, 5>>, -2)],
                     requests |-> [per_unit |-> Num("0.25", 0, <<2, 5>>, -2)] ] ]

\* a ratecard the request schema accepts although one rate is "-0"
\* (RateSpec rejects value < 0 only) and one is written with an exponent
RatecardNegativeZero ==
    [ present |-> TRUE, currency |-> "USD",
      billable |-> [ input_tokens_cached |-> [per_1m |-> NegativeZero],
                     output_tokens |-> [per_1m |-> Num("1E+2", 0, <<1>>, 2)],
                     requests |-> [per_unit |-> Num("0.25", 0, <<2, 5>>, -2)] ] ]

NoRatecard == [present |-> FALSE, currency |-> "", billable |-> EmptyMap]

BatchItems ==
    { EstimateRequest("nope", "any", <<UsageEntry("requests", 1, "int")>>,
                      DefaultOptions, RatecardUSD),
      EstimateRequest("nope", "any", <<UsageEntry("output_tokens", 1, "int")>>,
                      EstimateOptions("latest", "lenient", "registry_only"),
                      RatecardUSD),
      EstimateRequest("nope", "any",
                      <<UsageEntry("input_tokens_cached", 1, "int")>>,
                      DefaultOptions, RatecardUSD),
      EstimateRequest("nope", "any", <<UsageEntry("requests", 1, "int")>>,
                      EstimateOptions("2025-01-01", "strict", "prefer_gateway"),
                      RatecardUSD),
      EstimateRequest("nope", "any", <<UsageEntry("requests", 1, "int")>>,
                      DefaultOptions, NoRatecard),
      EstimateRequest("lab", "ghost", <<UsageEntry("requests", 1, "int")>>,
                      DefaultOptions, NoRatecard),
      EstimateRequest("google", "ghost",
                      <<UsageEntry("output_tokens", 1, "int")>>,
                      DefaultOptions, NoRatecard),
      EstimateRequest("vertex", "gemini",
                      <<UsageEntry("output_tokens", 1, "int")>>,
                      DefaultOptions, NoRatecard) }

\* BatchEstimateRequest.items: min_length 1
Batches == UNION { [1..n -> BatchItems] : n \in 1..MaxBatch }

BatchCall(items, b) ==
    [ op |-> "estimate_batch", items |-> items, aborted |-> b.aborted,
      pricing_version |-> b.pricing_version, results |-> b.results,
      errors |-> b.errors ]

\* POST /v1/estimate/batch
EstimateBatch ==
    /\ last = Idle
    /\ \E items \in Batches :
        LET b == estimate_batch(Self, items)
        IN  /\ Install(b.self)
            /\ last' = BatchCall(items, b)

NextBatch == EstimateBatch \/ Return

SpecBatch == Init /\ [][NextBatch]_vars

IsBatch == last.op = "estimate_batch"

\* what a single estimate of item i of the batch gives
Single(i) == estimate(FreshSelf, engine_arguments(last.items[i])).out

RECURSIVE PositionsFrom(_, _)
\* the positions >= i of the items whose single estimate succeeds (ok = TRUE)
\* or fails (ok = FALSE), in request order
PositionsFrom(i, ok) ==
    IF i > Len(last.items) THEN <<>>
    ELSE (IF (Single(i).status = "ok") = ok THEN <<i>> ELSE <<>>)
         \o PositionsFrom(i + 1, ok)

\* ------------------------------------------------------------------------
\* C16: a batch handles every item on its own: it is never aborted by an
\* item; the items whose estimate fails appear in errors, in request order,
\* each with its zero-based position and its error code; the other items
\* appear in results, in request order, each with the estimate it gets when
\* submitted alone; so len(results) + len(errors) = number of items.
\* ------------------------------------------------------------------------
C16_BatchItemsIndependent ==
    IsBatch =>
        LET good == PositionsFrom(1, TRUE)
            bad == PositionsFrom(1, FALSE)
        IN  /\ last.aborted = ""
            /\ Len(last.results) + Len(last.errors) = Len(last.items)
            /\ Len(last.results) = Len(good)
            /\ Len(last.errors) = Len(bad)
            /\ \A k \in 1..Len(bad) :
                 /\ last.errors[k].index = bad[k] - 1
                 /\ last.errors[k].error.code = Single(bad[k]).code
            /\ \A k \in 1..Len(good) :
                 /\ last.results[k].total.cost = Single(good[k]).total_cost
                 /\ last.results[k].breakdown = Single(good[k]).breakdown

\* ------------------------------------------------------------------------
\* Registry calls made by several worker threads at once: each step below
\* is one access to a field of the shared PricingRepository
\* ------------------------------------------------------------------------
MaxThreads == 2

Threads == 1..MaxThreads

\* a thread in a registry call: pc is its position, the other fields are the
\* locals and the result of the call
Thread(op, provider, model, pc) ==
    [ op |-> op, provider |-> provider, model |-> model, pc |-> pc,
      model_aliases |-> EmptyMap, aliases |-> EmptyMap, canonical |-> "",
      found |-> FALSE, ret |-> NoProvider, resolved_model |-> "",
      raised |-> "" ]

IdleThread == Thread("none", "", "", "idle")

ThreadCalls ==
    { Thread("get_provider", "sandbox", "", "provider_aliases"),
      Thread("get_provider", "lab", "", "provider_aliases"),
      Thread("get_provider", "gcp", "", "provider_aliases"),
      Thread("resolve_model", "gcp", "gemini", "model_aliases") }

\* mutant of stored_aliases: the attribute is bound before the dict is filled
stored_aliases_unfilled(built) == SomeMap(EmptyMap)

\* self._model_aliases = ..., self._provider_aliases = ...: the dict is
\* built in full by the loader and then bound to the attribute
stored_aliases(built) == SomeMap(built)

\* resolve_provider once _get_provider_aliases has returned, and for
\* resolve_model the lookup that follows it
thread_resolved(thr, aliases) ==
    LET canonical == resolve_provider_loop(aliases, thr.provider,
                                           thr.provider, {})
        of_provider == IF canonical \in DOMAIN thr.model_aliases
                       THEN thr.model_aliases[canonical] ELSE EmptyMap
    IN  IF thr.op = "get_provider"
        THEN [thr EXCEPT !.aliases = aliases, !.canonical = canonical,
                         !.pc = "cache"]
        ELSE [thr EXCEPT !.aliases = aliases, !.canonical = canonical,
                         !.resolved_model =
                             IF thr.model \in DOMAIN of_provider
                             THEN of_provider[thr.model] ELSE thr.model,
                         !.pc = "done"]

InitRace ==
    /\ files \in Registries
    /\ meta = load_meta
    /\ provider_files = discover_providers
    /\ provider_cache = EmptyMap
    /\ model_aliases = NoneMap
    /\ provider_aliases = NoneMap
    /\ last = Idle
    /\ threads = [t \in Threads |-> IdleThread]

\* a worker thread enters get_provider or resolve_model
ThreadCall ==
    \E t \in Threads, call \in ThreadCalls :
        /\ threads[t].pc = "idle"
        /\ threads' = [threads EXCEPT ![t] = call]
        /\ UNCHANGED << files, meta, provider_files, provider_cache,
                        model_aliases, provider_aliases, last >>

\* _get_model_aliases: if self._model_aliases is None
CheckModelAliases ==
    \E t \in Threads :
        /\ threads[t].pc = "model_aliases"
        /\ threads' = [threads EXCEPT ![t] =
              IF model_aliases.loaded
              THEN [@ EXCEPT !.model_aliases = model_aliases.map,
                             !.pc = "provider_aliases"]
              ELSE [@ EXCEPT !.pc = "model_aliases_store"]]
        /\ UNCHANGED << files, meta, provider_files, provider_cache,
                        model_aliases, provider_aliases, last >>

\* _get_model_aliases: self._model_aliases = self._load_model_aliases()
StoreModelAliases ==
    \E t \in Threads :
        /\ threads[t].pc = "model_aliases_store"
        /\ model_aliases' = stored_aliases(load_model_aliases)
        /\ threads' = [threads EXCEPT ![t].pc = "model_aliases_return"]
        /\ UNCHANGED << files, meta, provider_files, provider_cache,
                        provider_aliases, last >>

\* _get_model_aliases: return self._model_aliases
ReturnModelAliases ==
    \E t \in Threads :
        /\ threads[t].pc = "model_aliases_return"
        /\ threads' = [threads EXCEPT ![t] =
              [@ EXCEPT !.model_aliases = model_aliases.map,
                        !.pc = "provider_aliases"]]
        /\ UNCHANGED << files, meta, provider_files, provider_cache,
                        model_aliases, provider_aliases, last >>

\* _get_provider_aliases: if self._provider_aliases is None
CheckProviderAliases ==
    \E t \in Threads :
        /\ threads[t].pc = "provider_aliases"
        /\ threads' = [threads EXCEPT ![t] =
              IF provider_aliases.loaded
              THEN thread_resolved(@, provider_aliases.map)
              ELSE [@ EXCEPT !.pc = "provider_aliases_store"]]
        /\ UNCHANGED << files, meta, provider_files, provider_cache,
                        model_aliases, provider_aliases, last >>

\* _get_provider_aliases: self._provider_aliases = ...
StoreProviderAliases ==
    \E t \in Threads :
        /\ threads[t].pc = "provider_aliases_store"
        /\ provider_aliases' = stored_aliases(load_provider_aliases)
        /\ threads' = [threads EXCEPT ![t].pc = "provider_aliases_return"]
        /\ UNCHANGED << files, meta, provider_files, provider_cache,
                        model_aliases, last >>

\* _get_provider_aliases: return self._provider_aliases
ReturnProviderAliases ==
    \E t \in Threads :
        /\ threads[t].pc = "provider_aliases_return"
        /\ threads' = [threads EXCEPT ![t] =
              thread_resolved(@, provider_aliases.map)]
        /\ UNCHANGED << files, meta, provider_files, provider_cache,
                        model_aliases, provider_aliases, last >>

\* get_provider: the look in self._provider_cache and in _provider_files
CheckCache ==
    \E t \in Threads :
        /\ threads[t].pc = "cache"
        /\ threads' = [threads EXCEPT ![t] =
              IF threads[t].canonical \in DOMAIN provider_cache
              THEN [@ EXCEPT !.found = TRUE,
                             !.ret = provider_cache[threads[t].canonical],
                             !.pc = "done"]
              ELSE IF threads[t].canonical \notin provider_files
              THEN [@ EXCEPT !.pc = "done"]
              ELSE [@ EXCEPT !.pc = "load_provider"]]
        /\ UNCHANGED << files, meta, provider_files, provider_cache,
                        model_aliases, provider_aliases, last >>

\* get_provider: loaded = self._load_provider(path), then the store in
\* self._provider_cache unless the load raised
LoadProvider ==
    \E t \in Threads :
        /\ threads[t].pc = "load_provider"
        /\ LET canonical == threads[t].canonical
               loaded == load_provider(canonical)
           IN  IF ~loaded.ok
               THEN /\ threads' = [threads EXCEPT ![t] =
                          [@ EXCEPT !.raised = loaded.error, !.pc = "done"]]
                    /\ UNCHANGED provider_cache
               ELSE /\ provider_cache' =
                          MapMerge(provider_cache,
                                   [p \in {canonical} |-> loaded.value])
                    /\ threads' = [threads EXCEPT ![t] =
                          [@ EXCEPT !.found = TRUE, !.ret = loaded.value,
                                    !.pc = "done"]]
        /\ UNCHANGED << files, meta, provider_files, model_aliases,
                        provider_aliases, last >>

NextRace ==
    \/ ThreadCall
    \/ CheckModelAliases \/ StoreModelAliases \/ ReturnModelAliases
    \/ CheckProviderAliases \/ StoreProviderAliases \/ ReturnProviderAliases
    \/ CheckCache \/ LoadProvider

SpecRace == InitRace /\ [][NextRace]_vars

\* the call of thread t made alone on a registry with empty caches
AloneProvider(t) == get_provider(FreshSelf, threads[t].provider)
AloneModel(t) == resolve_model(FreshSelf, threads[t].provider, threads[t].model)

\* ------------------------------------------------------------------------
\* C17: when several threads make their first access at the same time, the
\* alias maps and the provider cache only ever hold fully loaded values,
\* equal to those a single-threaded load gives; every thread works on the
\* full alias map and ends with the result its call gives when made alone:
\* no thread gets not-found for a provider whose document loads.
\* ------------------------------------------------------------------------
C17_RacesGiveLoadedValues ==
    /\ provider_aliases.loaded => provider_aliases.map = load_provider_aliases
    /\ model_aliases.loaded => model_aliases.map = load_model_aliases
    /\ \A c \in DOMAIN provider_cache :
         load_provider(c).ok /\ provider_cache[c] = load_provider(c).value
    /\ \A t \in DOMAIN threads :
         /\ threads[t].pc \in {"cache", "load_provider", "done"} =>
              threads[t].aliases = load_provider_aliases
         /\ (threads[t].pc = "done" /\ threads[t].op = "get_provider") =>
              /\ threads[t].raised = AloneProvider(t).raised
              /\ threads[t].found = AloneProvider(t).found
              /\ threads[t].ret = AloneProvider(t).ret
              /\ (HasDocument(threads[t].provider) /\ threads[t].raised = "")
                   => threads[t].found
         /\ (threads[t].pc = "done" /\ threads[t].op = "resolve_model") =>
              /\ threads[t].model_aliases = load_model_aliases
              /\ threads[t].resolved_model = AloneModel(t).ret

\* two threads missed the cache for the same provider, reached through an
\* alias by one of them; one has loaded and stored it, the other is about to
C17_Witness ==
    \E t, u \in DOMAIN threads :
        /\ t # u
        /\ threads[t].op = "get_provider" /\ threads[u].op = "get_provider"
        /\ threads[t].provider # threads[t].canonical
        /\ threads[t].canonical = threads[u].canonical
        /\ threads[t].pc = "done" /\ threads[t].found
        /\ threads[t].ret = provider_cache[threads[t].canonical]
        /\ threads[u].pc = "load_provider"

\* ------------------------------------------------------------------------
\* Registries that hold an invalid provider document
\* ------------------------------------------------------------------------
\* a document that violates the schema: it has no models
UnschemedDoc == [provider |-> "lab"]

\* a document that declares the same model id twice
DuplicateDoc ==
    [ provider |-> "lab",
      models |-> << RawModel("lab-1", RawBase, <<>>),
                    RawModel("lab-1", RawBase, <<>>) >> ]

InvalidRegistries ==
    { [ meta |-> Meta,
        providers |-> [lab |-> doc, sandbox |-> EmptyDoc],
        aliases |-> << GoogleAliases >> ] :
      doc \in {UnschemedDoc, DuplicateDoc} }

InitInvalid ==
    /\ files \in InvalidRegistries
    /\ meta = load_meta
    /\ provider_files = discover_providers
    /\ provider_cache = EmptyMap
    /\ model_aliases = NoneMap
    /\ provider_aliases = NoneMap
    /\ last = Idle
    /\ threads = NoThreads

NextInvalid == EstimateBatch \/ GetProvider \/ Return

SpecInvalid == InitInvalid /\ [][NextInvalid]_vars

InvalidDocument(raw) ==
    \/ provider_schema_errors(raw) # {}
    \/ \E i, j \in 1..Len(raw.models) :
         i # j /\ raw.models[i].model = raw.models[j].model

HoldsInvalidDocument ==
    \E p \in DOMAIN files.providers : InvalidDocument(files.providers[p])

\* the registry has answered a request: a provider was returned, or a batch
\* got a response that holds an estimate
Served ==
    \/ last.op = "get_provider" /\ last.ret # ""
    \/ last.op = "estimate_batch" /\ last.aborted = "" /\ last.results # <<>>

\* ------------------------------------------------------------------------
\* C18: a provider document that violates the schema or declares a model id
\* twice aborts the start of the registry: a registry that holds such a
\* document never answers a request, for any provider.
\* ------------------------------------------------------------------------
C18_InvalidDocumentNeverServed == HoldsInvalidDocument => ~Served

\* ------------------------------------------------------------------------
\* Registries of another currency
\* ------------------------------------------------------------------------
Currencies == {"USD", "EUR"}

CurrencyRegistries ==
    { [ meta |-> RegistryMeta(Meta.pricing_version, c),
        providers |-> [sandbox |-> EmptyDoc],
        aliases |-> << GoogleAliases >> ] : c \in Currencies }

InitCurrency ==
    /\ files \in CurrencyRegistries
    /\ meta = load_meta
    /\ provider_files = discover_providers
    /\ provider_cache = EmptyMap
    /\ model_aliases = NoneMap
    /\ provider_aliases = NoneMap
    /\ last = Idle
    /\ threads = NoThreads

SpecCurrency == InitCurrency /\ [][NextBatch]_vars

\* item k of the batch's errors is the failure of the currency check
CurrencyCheckFailed(k) ==
    /\ last.errors[k].error.code = "INVALID_REQUEST"
    /\ last.errors[k].error.message = "Currency must be " \o files.meta.currency

\* ------------------------------------------------------------------------
\* C19: the currency parameter of estimate defaults to the currency of the
\* registry: an estimate requested without a currency (every item of a
\* batch) never fails the currency check, whatever currency the registry
\* metadata declares.
\* ------------------------------------------------------------------------
C19_DefaultCurrencyIsRegistryCurrency ==
    IsBatch => \A k \in 1..Len(last.errors) : ~CurrencyCheckFailed(k)

\* ------------------------------------------------------------------------
\* Usage maps around the bounds of a quantity
\* ------------------------------------------------------------------------
\* -1, 0, MaxQty, 10^10 - 1, 10^10, 10^10 + 1, 10^10 + 10^5 and -10^5 as
\* (limbs, quantity)
BoundaryQuantities ==
    { <<0, 0 - 1>>, <<0, 0>>, <<0, MaxQty>>,
      <<MaxQuantityLimbs - 1, QuantityLimb - 1>>, <<MaxQuantityLimbs, 0>>,
      <<MaxQuantityLimbs, 1>>, <<MaxQuantityLimbs + 1, 0>>, <<0 - 1, 0>> }

BoundaryEntries ==
    { BigUsageEntry(d, q[1], q[2], "int") :
        d \in {"", "output_tokens", "requests"}, q \in BoundaryQuantities }
    \cup { UsageEntry(d, q, t) :
             d \in {"", "output_tokens", "requests"}, q \in {0, 1},
             t \in {"bool", "float"} }

\* requests that pass the checks of version, currency and mode, for a
\* provider that is unknown or declares no model
UsageRequests ==
    { Request(p, "ghost", u, md, "latest", "USD", NoOverride) :
        p \in {"nope", "sandbox"}, u \in UsagesOver(BoundaryEntries),
        md \in {"strict", "lenient"} }

\* BillingEngine.estimate on a usage map around the bounds
EstimateUsage ==
    /\ last = Idle
    /\ \E req \in UsageRequests :
        LET r == estimate(Self, req)
        IN  /\ Install(r.self)
            /\ last' = Call("estimate", req, r.out, "", r.rates)

NextUsage == EstimateUsage \/ Return

SpecUsage == Init /\ [][NextUsage]_vars

\* 0 <= quantity <= 10,000,000,000
InRange(e) ==
    \/ e.limbs = 0 /\ e.quantity >= 0
    \/ e.limbs \in 1..(MaxQuantityLimbs - 1)
    \/ e.limbs = MaxQuantityLimbs /\ e.quantity = 0

Acceptable(e) == e.dimension # "" /\ e.qtype = "int" /\ InRange(e)

AllAcceptable(usage) == \A i \in 1..Len(usage) : Acceptable(usage[i])

\* the estimate went on to the lookup of the provider and the model
LookedUp == Out.code \in {"PROVIDER_NOT_SUPPORTED", "MODEL_NOT_FOUND"}

\* the estimate failed for its usage map, before any lookup
UsageRejected ==
    /\ FailedWith("INVALID_REQUEST", "dimension")
    /\ ~last.rates.resolved

\* the details name the dimension and the quantity of entry e
NamesDimension(e) == Out.details.dimension = e.dimension
NamesQuantity(e) ==
    /\ "quantity" \in DOMAIN Out.details
    /\ Out.details.quantity = QuantityText(e)

\* ------------------------------------------------------------------------
\* C20 (as stated): an estimate accepts a usage map exactly when every entry
\* has a non-empty dimension and an integer quantity, not a boolean, with
\* 0 <= quantity <= 10,000,000,000; otherwise it fails with INVALID_REQUEST
\* before any lookup, and the details name the dimension and the quantity of
\* an offending entry.
\* ------------------------------------------------------------------------
C20_UsageRejectedWithDimensionAndQuantity ==
    IsEstimate =>
        /\ AllAcceptable(Req.usage) => LookedUp
        /\ ~AllAcceptable(Req.usage) =>
             /\ UsageRejected
             /\ \E i \in 1..Len(Req.usage) :
                  /\ ~Acceptable(Req.usage[i])
                  /\ NamesDimension(Req.usage[i])
                  /\ NamesQuantity(Req.usage[i])

\* ------------------------------------------------------------------------
\* C20 (amended): an estimate accepts a usage map exactly when every entry
\* has a non-empty dimension and an integer quantity, not a boolean, with
\* 0 <= quantity <= 10,000,000,000, both bounds inclusive; otherwise it
\* fails with INVALID_REQUEST before any lookup, and the details name the
\* dimension of an offending entry and, when that dimension is not empty,
\* its quantity.
\* ------------------------------------------------------------------------
C20_UsageRejectedWithDimension ==
    IsEstimate =>
        /\ AllAcceptable(Req.usage) => LookedUp
        /\ ~AllAcceptable(Req.usage) =>
             /\ UsageRejected
             /\ \E i \in 1..Len(Req.usage) :
                  /\ ~Acceptable(Req.usage[i])
                  /\ NamesDimension(Req.usage[i])
                  /\ Req.usage[i].dimension # "" => NamesQuantity(Req.usage[i])
                  /\ Req.usage[i].dimension = "" =>
                       DOMAIN Out.details = {"dimension"}

\* a quantity of exactly 10,000,000,000 was accepted and the next entry, of
\* 10,000,000,001, was rejected by name
C20_Witness ==
    /\ IsEstimate
    /\ Len(Req.usage) = 2
    /\ Req.usage[1] = BigUsageEntry("requests", MaxQuantityLimbs, 0, "int")
    /\ Req.usage[2] = BigUsageEntry("output_tokens", MaxQuantityLimbs, 1, "int")
    /\ UsageRejected
    /\ Out.details.dimension = "output_tokens"
    /\ Out.details.quantity = "10000000001"

\* ------------------------------------------------------------------------
\* Warnings of an estimate
\* ------------------------------------------------------------------------
\* a tier of the declared model qualifies for the usage of the request
TierApplies ==
    /\ ~Req.override_ratecard.present
    /\ DeclaredEntries(Req.provider, Req.model) # {}
    /\ Qualifying(DeclaredEntry.pricing_tiers, Req.usage) # {}

\* the warnings are the tier warning, when own = 1, and then one warning for
\* each dimension of off, in ascending order of the dimensions
WarningsAre(own, off) ==
    /\ Len(Out.warnings) = own + Cardinality(off)
    /\ \A k \in 1..Cardinality(off) :
         \E d \in off :
            /\ Cardinality({ e \in off : StrLess(e, d) }) = k - 1
            /\ Out.warnings[own + k] = IgnoredWarning(d)

\* ------------------------------------------------------------------------
\* C21: the warnings of a successful estimate are the tier warning first,
\* present exactly when a tier of the model applies, then one warning for
\* each skipped dimension in ascending order of the dimensions; they are
\* empty when no tier applies and no dimension is skipped.
\* ------------------------------------------------------------------------
C21_WarningsTierFirstThenSorted ==
    Succeeded =>
        LET own == IF TierApplies THEN 1 ELSE 0
            off == Offending(Req.usage, last.rates.rate_map)
        IN  /\ WarningsAre(own, off)
            /\ own = 1 => Out.warnings[1] = last.rates.tier_warning
            /\ (own = 0 /\ off = {}) => Out.warnings = <<>>
            /\ Req.mode = "strict" => off = {}

\* a lenient estimate skipped two dimensions that the usage map held in
\* descending order, and warned of them in ascending order
C21_Witness ==
    /\ Succeeded
    /\ Req.mode = "lenient"
    /\ Len(Req.usage) = 2
    /\ StrLess(Req.usage[2].dimension, Req.usage[1].dimension)
    /\ Offending(Req.usage, last.rates.rate_map)
         = {Req.usage[1].dimension, Req.usage[2].dimension}
    /\ Out.warnings = << IgnoredWarning(Req.usage[2].dimension),
                         IgnoredWarning(Req.usage[1].dimension) >>

\* ------------------------------------------------------------------------
\* C22: every estimate either returns an EstimateResult or raises a
\* structured error: a PricingError with a code of the taxonomy, a message,
\* the status class 400 and a details mapping; it never ends in another
\* exception.
\* ------------------------------------------------------------------------
Taxonomy ==
    { "INVALID_REQUEST", "PROVIDER_NOT_SUPPORTED", "MODEL_NOT_FOUND",
      "PRICING_VERSION_NOT_FOUND", "UNSUPPORTED_DIMENSION" }

C22_EveryFailureIsStructured ==
    IsEstimate =>
        /\ Out.status \in {"ok", "error"}
        /\ Out.status = "error" =>
             /\ Out.exc = "PricingError"
             /\ Out.code \in Taxonomy
             /\ Out.message # ""
             /\ Out.status_code = 400
             /\ DOMAIN Out.details # {}

\* ------------------------------------------------------------------------
\* Single estimate route (app/api/routes.py)
\* ------------------------------------------------------------------------
NoResponse == estimate_response_from_result(NoOutcome, <<>>)

\* what the route leaves behind once engine.estimate has returned or raised:
\* the response, or the exception handed to the error handlers
estimate_route_response(payload, r) ==
    [ self |-> r.self, out |-> r.out,
      response |-> IF r.out.status = "ok"
                   THEN estimate_response_from_result(
                            r.out,
                            check_gateway_mode(
                                payload.options.gateway_pricing_mode))
                   ELSE NoResponse ]

\* POST /v1/estimate
estimate_route(self, payload) ==
    estimate_route_response(payload, estimate(self, engine_arguments(payload)))

GatewayModes == {"prefer_gateway", "prefer_provider", "registry_only"}

RouteEntries ==
    { UsageEntry(d, 1, "int") :
        d \in {"input_tokens_cached", "output_tokens", "requests"} }

\* payloads that pass the request schema (usage: min_length 1)
RoutePayloads ==
    { EstimateRequest(p, "gemini", u, EstimateOptions("latest", md, g), rc) :
        p \in {"nope", "sandbox", "vertex"},
        u \in UsagesOver(RouteEntries) \ {<<>>},
        md \in {"strict", "lenient"}, g \in GatewayModes,
        rc \in {RatecardUSD, RatecardNegativeZero, NoRatecard} }

RouteCall(payload, r) ==
    [ op |-> "estimate_route", payload |-> payload, out |-> r.out,
      response |-> r.response ]

EstimateRoute ==
    /\ last = Idle
    /\ \E payload \in RoutePayloads :
        LET r == estimate_route(Self, payload)
        IN  /\ Install(r.self)
            /\ last' = RouteCall(payload, r)

NextRoute == EstimateRoute \/ Return

SpecRoute == Init /\ [][NextRoute]_vars

IsRoute == last.op = "estimate_route"

\* the same payload sent with the default gateway_pricing_mode
WithDefaultGateway ==
    estimate_route(FreshSelf,
        [last.payload EXCEPT !.options.gateway_pricing_mode = "prefer_gateway"])

\* ------------------------------------------------------------------------
\* C23: gateway_pricing_mode changes nothing of an estimate but its
\* warnings: the outcome, the error, the provider, the model, the breakdown
\* and the total are those of the same request with the default mode; the
\* warnings are the engine's warnings, followed, exactly when the mode is
\* not the default, by the advisory warning that names gateway_pricing_mode.
\* ------------------------------------------------------------------------
C23_GatewayModeOnlyWarns ==
    IsRoute =>
        LET d == WithDefaultGateway
            g == last.payload.options.gateway_pricing_mode
        IN  /\ last.out.status = d.out.status
            /\ last.out.exc = d.out.exc
            /\ last.out.code = d.out.code
            /\ last.out.details = d.out.details
            /\ last.response.provider = d.response.provider
            /\ last.response.model = d.response.model
            /\ last.response.breakdown = d.response.breakdown
            /\ last.response.total = d.response.total
            /\ last.out.status = "ok" =>
                 /\ d.response.warnings = last.out.warnings
                 /\ last.response.warnings =
                      last.out.warnings
                      \o (IF g \in {"prefer_provider", "registry_only"}
                          THEN <<GATEWAY_MODE_WARNING>> ELSE <<>>)

\* a lenient estimate that skipped a dimension was answered under
\* prefer_provider: the advisory warning follows the engine's warning
C23_Witness ==
    /\ IsRoute
    /\ last.out.status = "ok"
    /\ last.payload.options.gateway_pricing_mode = "prefer_provider"
    /\ Len(last.out.warnings) = 1
    /\ Len(last.response.warnings) = 2
    /\ last.response.warnings[2] = GATEWAY_MODE_WARNING
    /\ last.response.breakdown # <<>>

\* ------------------------------------------------------------------------
\* Model lookup of the registry (app/pricing/repository.py)
\* ------------------------------------------------------------------------
\* mutant of get_model_lookup: the resolved id is returned whether or not
\* the provider declares it
get_model_lookup_unchecked(g, m) ==
    [self |-> m.self, raised |-> "", found |-> TRUE, ret |-> m.ret]

\* get_model once resolve_model has returned: provider_data.models.get
get_model_lookup(g, m) ==
    [ self |-> m.self, raised |-> "",
      found |-> m.ret \in DOMAIN g.ret.models,
      ret |-> IF m.ret \in DOMAIN g.ret.models THEN g.ret.models[m.ret].model
              ELSE "" ]

\* get_model once get_provider has returned (or raised)
get_model_provided(provider, model, g) ==
    IF g.raised # ""
    THEN [self |-> g.self, raised |-> g.raised, found |-> FALSE, ret |-> ""]
    ELSE IF ~g.found
    THEN [self |-> g.self, raised |-> "", found |-> FALSE, ret |-> ""]
    ELSE get_model_lookup(g, resolve_model(g.self, provider, model))

\* [self, raised, found, ret |-> the id of the ModelPricing returned]
get_model(self, provider, model) ==
    get_model_provided(provider, model, get_provider(self, provider))

\* PricingRepository.get_model(provider, model)
GetModel ==
    /\ last = Idle
    /\ \E provider \in Providers, model \in Models :
        LET r == get_model(Self, provider, model)
        IN  /\ Install(r.self)
            /\ last' = Call("get_model",
                            [NoRequest EXCEPT !.provider = provider,
                                              !.model = model],
                            IF r.raised # "" THEN Failure(Crash(r.raised))
                            ELSE NoOutcome,
                            r.ret, NoRates)

NextModels == GetModel \/ ResolveModel \/ GetProvider \/ Return

SpecModels == Init /\ [][NextModels]_vars

IsResolveModel == last.op = "resolve_model"
IsGetModel == last.op = "get_model"

\* the alias map the alias documents give the provider the chain of p ends in
DeclaredModelAliases(p) ==
    IF DeclaredProvider(p) \in DOMAIN load_model_aliases
    THEN load_model_aliases[DeclaredProvider(p)] ELSE EmptyMap

\* ------------------------------------------------------------------------
\* C24: resolve_model follows the provider alias chain and looks the model
\* up in the alias map of the provider the chain ends in: it returns the
\* mapped id when the map has an entry and the model unchanged when it has
\* none, also for an unknown provider; get_model is the lookup of that
\* resolved id among the models of get_provider(provider): it raises what
\* get_provider raises, and otherwise returns the model of that id when
\* get_provider returns a provider that has it, and nothing when not.
\* ------------------------------------------------------------------------
C24_ResolveModelThenLookup ==
    /\ IsResolveModel =>
         LET a == DeclaredModelAliases(Req.provider)
         IN  /\ Req.model \in DOMAIN a => last.ret = a[Req.model]
             /\ Req.model \notin DOMAIN a => last.ret = Req.model
    /\ IsGetModel =>
         LET g == get_provider(Self, Req.provider)
             id == DeclaredModelId(Req.provider, Req.model)
         IN  /\ g.raised # "" => (Out.status = "crash" /\ Out.exc = g.raised)
             /\ g.raised = "" =>
                  /\ Out.status = "none"
                  /\ last.ret = IF g.found /\ id \in DOMAIN g.ret.models
                                THEN id ELSE ""

\* get_model looked an aliased model up among the models of a provider
\* that get_provider returned, reached through a provider alias
C24_Witness ==
    /\ IsGetModel
    /\ get_provider(Self, Req.provider).found
    /\ DeclaredProvider(Req.provider) # Req.provider
    /\ Out.status = "none"
    /\ last.ret = ""

\* ------------------------------------------------------------------------
\* C25: the registry metadata is constant: no operation, successful or
\* failed, changes the pricing version or the currency of the registry, and
\* every EstimateResult carries that pricing version and that currency,
\* also when the caller asked for the version "latest".
\* ------------------------------------------------------------------------
C25_MetaConstantAndReported ==
    [][ /\ meta' = meta
        /\ meta'.pricing_version = files.meta.pricing_version
        /\ meta'.currency = files.meta.currency
        /\ (last'.op = "estimate" /\ last'.out.status = "ok") =>
             /\ last'.out.pricing_version = meta.pricing_version
             /\ last'.out.currency = meta.currency ]_vars

\* an estimate asked for "latest" after other calls had filled the caches,
\* and was answered with the version of the registry
C25_Witness ==
    /\ Succeeded
    /\ Req.pricing_version = "latest"
    /\ Out.pricing_version = "2026-02-22"
    /\ Out.currency = "USD"
    /\ provider_cache # EmptyMap
    /\ provider_aliases.loaded

\* ------------------------------------------------------------------------
\* C26: loading a provider document gives, for each model entry, a model
\* whose tiers are the pricing_tiers of the entry in document order (none
\* when the entry declares none).
\* ------------------------------------------------------------------------
DeclaredTiers(entry) ==
    [ k \in 1..Len(entry.pricing_tiers) |->
        PricingTier(TierCondition(entry.pricing_tiers[k].condition.dimension,
                                  entry.pricing_tiers[k].condition.gt),
                    parse_billable(entry.pricing_tiers[k].billable)) ]

C26_LoadedModelsCarryDeclaredTiers ==
    (last.op = "get_provider" /\ HasDocument(Req.provider)) =>
        LET c == DeclaredProvider(Req.provider)
            doc == files.providers[c]
        IN  /\ Out.status # "crash"
            /\ c \in DOMAIN provider_cache
            /\ \A i \in 1..Len(doc.models) :
                 /\ doc.models[i].model \in DOMAIN provider_cache[c].models
                 /\ "pricing_tiers" \in
                      DOMAIN provider_cache[c].models[doc.models[i].model]
                 /\ provider_cache[c].models[doc.models[i].model].pricing_tiers
                      = DeclaredTiers(doc.models[i])

\* ------------------------------------------------------------------------
\* Listings of the registry (app/pricing/repository.py, app/api/routes.py)
\* ------------------------------------------------------------------------
\* Python's str ordering (by code point) on the provider ids, model ids and
\* capabilities of the model
NameRank(name) ==
    CASE name = "chat" -> 1
      [] name = "gcp" -> 2
      [] name = "gemini" -> 3
      [] name = "gemini-2.5-pro" -> 4
      [] name = "gemini-flash" -> 5
      [] name = "gemini-multi" -> 6
      [] name = "ghost" -> 7
      [] name = "google" -> 8
      [] name = "lab" -> 9
      [] name = "lab-1" -> 10
      [] name = "nope" -> 11
      [] name = "sandbox" -> 12
      [] name = "vertex" -> 13

\* sorted(names) of a set or of the keys of a dict
RECURSIVE SortedNames(_)
SortedNames(names) ==
    IF names = {} THEN <<>>
    ELSE LET least == CHOOSE a \in names :
                         \A b \in names : NameRank(a) <= NameRank(b)
         IN  <<least>> \o SortedNames(names \ {least})

\* PricingRepository.list_providers()
list_providers == SortedNames(provider_files)

\* the loop of list_models over sorted(provider_data.models)
list_models_sorted(models) ==
    [ i \in 1..Cardinality(DOMAIN models) |->
        models[SortedNames(DOMAIN models)[i]] ]

\* list_models once get_provider has returned (or raised)
list_models_provided(g) ==
    IF g.raised # ""
    THEN [self |-> g.self, raised |-> g.raised, ret |-> <<>>]
    ELSE IF ~g.found
    THEN [self |-> g.self, raised |-> "", ret |-> <<>>]
    ELSE [self |-> g.self, raised |-> "",
          ret |-> list_models_sorted(g.ret.models)]

\* [self, raised, ret |-> the ModelPricing objects in order of their ids]
list_models(self, provider) ==
    list_models_provided(get_provider(self, provider))

\* PricingRepository.serialize_billable(billable)
serialize_billable(billable) ==
    [ dimension \in DOMAIN billable |->
        [ kind \in {billable[dimension].kind} |-> billable[dimension].raw ] ]

\* a field that may be None
Optional(present, value) == [present |-> present, value |-> value]

ProviderSummary(provider) ==
    [ provider |-> provider.provider,
      model_count |-> Cardinality(DOMAIN provider.models),
      capabilities |->
          SortedNames(UNION { { provider.models[m].capabilities[i] :
                                  i \in 1..Len(provider.models[m].capabilities) } :
                              m \in DOMAIN provider.models }) ]

ModelSummary(model, include_rates) ==
    [ model |-> model.model, effective_from |-> model.effective_from,
      capabilities |-> model.capabilities,
      metadata |-> Optional(model.metadata # EmptyMap, model.metadata),
      billable |-> IF include_rates
                   THEN Optional(TRUE, serialize_billable(model.billable))
                   ELSE Optional(FALSE, EmptyMap) ]

\* what a listing route leaves behind: the response, or the exception handed
\* to the error handlers
ListingResult(self, error, response) ==
    [ self |-> self,
      out |-> IF error.raised THEN Failure(error)
              ELSE [NoOutcome EXCEPT !.status = "ok"],
      response |-> response ]

ProvidersResponse(pricing_version, providers) ==
    [pricing_version |-> pricing_version, providers |-> providers]

ModelsResponse(pricing_version, provider, models) ==
    [pricing_version |-> pricing_version, provider |-> provider,
     models |-> models]

\* the loop of the route list_providers over repository.list_providers()
RECURSIVE list_providers_route_loop(_, _, _)
list_providers_route_loop(self, names, providers) ==
    IF names = <<>>
    THEN ListingResult(self, NoError,
                       ProvidersResponse(meta.pricing_version, providers))
    ELSE LET g == get_provider(self, Head(names))
         IN  IF g.raised # ""
             THEN ListingResult(g.self, Crash(g.raised),
                                ProvidersResponse("", <<>>))
             ELSE IF ~g.found
             THEN list_providers_route_loop(g.self, Tail(names), providers)
             ELSE list_providers_route_loop(
                      g.self, Tail(names),
                      Append(providers, ProviderSummary(g.ret)))

\* GET /providers
list_providers_route(self) ==
    list_providers_route_loop(self, list_providers, <<>>)

\* the route list_models once repository.list_models has returned
list_models_route_listed(provider, include_rates, l) ==
    IF l.raised # ""
    THEN ListingResult(l.self, Crash(l.raised), ModelsResponse("", "", <<>>))
    ELSE ListingResult(
             l.self, NoError,
             ModelsResponse(meta.pricing_version, provider,
                            [ i \in 1..Len(l.ret) |->
                                ModelSummary(l.ret[i], include_rates) ]))

\* the route list_models once get_provider has returned (or raised)
list_models_route_provided(provider, include_rates, g) ==
    IF g.raised # ""
    THEN ListingResult(g.self, Crash(g.raised), ModelsResponse("", "", <<>>))
    ELSE IF ~g.found
    THEN ListingResult(g.self,
                       PricingError("PROVIDER_NOT_SUPPORTED",
                                    "Provider not supported",
                                    [provider |-> provider]),
                       ModelsResponse("", "", <<>>))
    ELSE list_models_route_listed(provider, include_rates,
                                  list_models(g.self, provider))

\* GET /models?provider=...&include_rates=...
list_models_route(self, provider, include_rates) ==
    list_models_route_provided(provider, include_rates,
                               get_provider(self, provider))

ListingCall(op, provider, include_rates, r) ==
    [ op |-> op, provider |-> provider, include_rates |-> include_rates,
      out |-> r.out, response |-> r.response ]

\* PricingRepository.list_models(provider)
ListModels ==
    /\ last = Idle
    /\ \E provider \in Providers :
        LET l == list_models(Self, provider)
        IN  /\ Install(l.self)
            /\ last' = [ op |-> "list_models", provider |-> provider,
                         out |-> IF l.raised # ""
                                 THEN Failure(Crash(l.raised))
                                 ELSE [NoOutcome EXCEPT !.status = "ok"],
                         listed |-> l.ret ]

\* the route list_providers
ListProvidersRoute ==
    /\ last = Idle
    /\ LET r == list_providers_route(Self)
       IN  /\ Install(r.self)
           /\ last' = ListingCall("list_providers_route", "", FALSE, r)

\* the route list_models
ListModelsRoute ==
    /\ last = Idle
    /\ \E provider \in Providers, include_rates \in BOOLEAN :
        LET r == list_models_route(Self, provider, include_rates)
        IN  /\ Install(r.self)
            /\ last' = ListingCall("list_models_route", provider,
                                   include_rates, r)

\* ------------------------------------------------------------------------
\* The provider cache of a registry used by one caller
\* ------------------------------------------------------------------------
ProviderCall(provider, g) ==
    [ op |-> "get_provider",
      req |-> [NoRequest EXCEPT !.provider = provider],
      out |-> IF g.raised # "" THEN Failure(Crash(g.raised)) ELSE NoOutcome,
      ret |-> IF g.found THEN g.ret.provider ELSE "",
      rates |-> NoRates, found |-> g.found, parsed |-> g.parsed ]

\* PricingRepository.get_provider(provider), with what it did on the way
LookupProvider ==
    /\ last = Idle
    /\ \E provider \in Providers :
        LET g == get_provider(Self, provider)
        IN  /\ Install(g.self)
            /\ last' = ProviderCall(provider, g)

NextCache ==
    \/ LookupProvider
    \/ GetModel
    \/ ResolveModel
    \/ ResolveProvider
    \/ ListModels
    \/ ListProvidersRoute
    \/ ListModelsRoute
    \/ EstimateRoute
    \/ Return

SpecCache == Init /\ [][NextCache]_vars

\* ------------------------------------------------------------------------
\* C27: the provider cache holds only entries keyed by a canonical id that
\* has a provider file; once a provider is cached, get_provider for any id
\* or alias whose chain ends in that canonical id returns the cached
\* provider without parsing the file again; no entry is ever removed or
\* replaced, and a lookup that finds nothing or a load that fails adds none.
\* ------------------------------------------------------------------------
C27_ProviderCacheStable ==
    [][ /\ \A k \in DOMAIN provider_cache' :
             /\ k \in provider_files
             /\ DeclaredProvider(k) = k
             /\ load_provider(k).ok
        /\ \A k \in DOMAIN provider_cache :
             /\ k \in DOMAIN provider_cache'
             /\ provider_cache'[k] = provider_cache[k]
        /\ (last'.op = "get_provider") =>
             LET c == DeclaredProvider(last'.req.provider)
             IN  /\ c \in DOMAIN provider_cache =>
                      /\ last'.found
                      /\ ~last'.parsed
                      /\ last'.ret = provider_cache[c].provider
                      /\ provider_cache' = provider_cache
                 /\ ~last'.found => provider_cache' = provider_cache
                 /\ last'.found => c \in DOMAIN provider_cache' ]_vars

\* the provider cached under "sandbox" was returned for the alias "lab",
\* and a load that failed before had left no entry
C27_Witness ==
    /\ last.op = "get_provider"
    /\ last.req.provider = "lab"
    /\ last.found
    /\ ~last.parsed
    /\ last.ret = "sandbox"
    /\ DOMAIN provider_cache = {"sandbox"}
    /\ provider_aliases.loaded

\* ------------------------------------------------------------------------
\* C28: a usage dimension with quantity 0 is skipped before the support
\* check: it is not billed, causes no UNSUPPORTED_DIMENSION in strict mode
\* and no warning in lenient mode, even when it is unsupported or unrated;
\* a tier condition on it sees the value 0.
\* ------------------------------------------------------------------------
ZeroDims(usage) == { d \in UsageKeys(usage) : QuantityOf(usage, d) = 0 }

Unbillable(d, ratecard) ==
    d \notin SUPPORTED_BILLABLE_DIMENSIONS \/ d \notin DOMAIN ratecard

C28_ZeroQuantitySkipped ==
    (IsEstimate /\ last.rates.resolved) =>
        /\ \A d \in ZeroDims(Req.usage) :
             /\ d \notin BreakdownDims(Out.breakdown)
             /\ \A i \in 1..Len(Out.warnings) :
                  Out.warnings[i] # IgnoredWarning(d)
             /\ Out.code = "UNSUPPORTED_DIMENSION" => Out.details.dimension # d
             /\ resolve_dimension(d, Req.usage) = 0
        /\ (\A d \in UsageKeys(Req.usage) \ ZeroDims(Req.usage) :
               ~Unbillable(d, last.rates.rate_map)) =>
             /\ Out.status = "ok"
             /\ Out.warnings = <<>>

\* a strict estimate succeeded although its usage names, with quantity 0, a
\* dimension the ratecard does not rate
C28_Witness ==
    /\ Succeeded
    /\ Req.mode = "strict"
    /\ \E d \in ZeroDims(Req.usage) : Unbillable(d, last.rates.rate_map)
    /\ Out.breakdown # <<>>

\* the tier the sorted loop of _resolve_rate_map stops at: of the qualifying
\* tiers with the greatest threshold, the one declared first; 0 when none
\* qualifies
AppliedTier(tiers, usage) ==
    LET q == Qualifying(tiers, usage)
        top == { i \in q :
                   \A j \in q : tiers[j].condition.gt <= tiers[i].condition.gt }
    IN  IF q = {} THEN 0
        ELSE CHOOSE i \in top : \A j \in top : i <= j

\* the non-zero supported dimensions that the base ratecard of the declared
\* entry rates and the ratecard of its tier i does not
DroppedByTier(entry, i, usage) ==
    { d \in NonZero(usage) \cap SUPPORTED_BILLABLE_DIMENSIONS :
        /\ d \in DOMAIN parse_billable(entry.billable)
        /\ d \notin DOMAIN parse_billable(entry.pricing_tiers[i].billable) }

\* ------------------------------------------------------------------------
\* C29: the ratecard of an applied tier replaces the base ratecard as a
\* whole: a dimension with quantity > 0 that the base rates and the applied
\* tier does not fails a strict estimate with UNSUPPORTED_DIMENSION and is
\* skipped with a warning by a lenient one, while the same dimension is
\* billed at the base rate when no tier qualifies.
\* ------------------------------------------------------------------------
C29_TierReplacesBaseRatecard ==
    ForDeclaredModel =>
        LET entry == DeclaredEntry
            i == AppliedTier(entry.pricing_tiers, Req.usage)
            base == parse_billable(entry.billable)
        IN  /\ last.rates.resolved
            /\ i # 0 =>
                 /\ last.rates.rate_map =
                      parse_billable(entry.pricing_tiers[i].billable)
                 /\ DroppedByTier(entry, i, Req.usage) # {} =>
                      IF Req.mode = "strict"
                      THEN /\ Out.status = "error"
                           /\ Out.code = "UNSUPPORTED_DIMENSION"
                      ELSE /\ Out.status = "ok"
                           /\ \A d \in DroppedByTier(entry, i, Req.usage) :
                                /\ d \notin BreakdownDims(Out.breakdown)
                                /\ \E k \in 1..Len(Out.warnings) :
                                     Out.warnings[k] = IgnoredWarning(d)
            /\ (i = 0 /\ Offending(Req.usage, base) = {}) =>
                 /\ Out.status = "ok"
                 /\ BreakdownDims(Out.breakdown) = NonZero(Req.usage)

\* ------------------------------------------------------------------------
\* C30: the tiers of a model are ranked by threshold alone, whatever
\* dimension each tests: the applied tier is the qualifying tier with the
\* greatest threshold and, among qualifying tiers of equal threshold, the one
\* declared first; the tier warning names that tier's dimension and
\* threshold.
\* ------------------------------------------------------------------------
C30_TiersRankedByThresholdThenOrder ==
    (ForDeclaredModel /\ Len(DeclaredEntry.pricing_tiers) >= 2) =>
        LET tiers == DeclaredEntry.pricing_tiers
            i == AppliedTier(tiers, Req.usage)
        IN  /\ last.rates.resolved
            /\ i = 0 => last.rates.tier_warning = ""
            /\ i # 0 =>
                 /\ last.rates.rate_map = parse_billable(tiers[i].billable)
                 /\ last.rates.tier_warning =
                      TierWarning(tiers[i],
                                  ConditionValue(tiers[i].condition, Req.usage))
====
